---------------------------- MODULE Spec2Model ----------------------------
(***************************************************************************)
(* State-machine model of src/script.js: the IndexedDB blob store, the     *)
(* localStorage metadata document, the bootstrap sequence, the auth and    *)
(* follow mutators and the player engine.                                  *)
(*                                                                         *)
(* Conventions                                                             *)
(*   - song_N, album_N are modelled by the number N; a blob key            *)
(*     `audio:song_N` is the pair <<"audio", N>>, `image:album:album_N` is *)
(*     <<"image:album", N>>, `image:user:N` is <<"image:user", N>>.        *)
(*   - state.currentUser is a reference to an element of state.meta.users; *)
(*     it is modelled by that element's position (NoUser when null).       *)
(*   - Date.now() fields (createdAt, year) and display-only fields (bio,   *)
(*     title, genre ...) are not read by any modelled operation and are    *)
(*     left out of the records.                                            *)
(*   - the file has no "use strict" directive and no import/export, so it  *)
(*     runs as a classic (sloppy mode) script: an assignment to a property *)
(*     of a primitive value is silently dropped.                           *)
(***************************************************************************)
EXTENDS Integers, Sequences, FiniteSets, TLC

VARIABLES
  persisted,    \* localStorage[META_KEY]: the raw stored text
  blobs,        \* the IndexedDB object store `assets`: key -> blob
  meta,         \* state.meta
  currentUser,  \* state.currentUser (position in meta.users, NoUser = null)
  bootPc,       \* where the top-level script / bootstrap() stands
  bootLocals,   \* songId, albumId of createSampleAssetsIfEmpty
  idbPromise,   \* the module variable idbPromise
  openCount,    \* number of indexedDB.open() calls made by this page
  idbTasks,     \* idbPut/idbGet/idbDelete calls in flight, in call order
  lastWrite,    \* per key, the last completed write (history, not program state)
  player,       \* state.player: queue, index, playing, currentSongId
  audio,        \* the <audio> element: src, paused, ended, error, currentTime
  plays,        \* playSong bodies suspended at `await audio.play()`
  uploads,      \* upload submits suspended at fileToImage, fileToBlob, imageToBlob
  panels,       \* the queue arrays captured by the queue panels that are open
  seek,         \* the seek sliders, state.player.seekUpdating and its timers
  edits,        \* profile saves suspended at fileToImage / imageToBlob
  ret           \* what the last handler returned or signalled (toast/alert)

metaVars   == <<persisted, meta, currentUser>>
bootVars   == <<bootPc, bootLocals>>
idbVars    == <<blobs, idbPromise, openCount, idbTasks, lastWrite>>
playerVars == <<player, audio, plays>>
domVars    == <<panels, seek, edits>>
vars == <<persisted, blobs, meta, currentUser, bootPc, bootLocals, idbPromise,
          openCount, idbTasks, lastWrite, player, audio, plays, uploads,
          panels, seek, edits, ret>>

----------------------------------------------------------------------------
(* Bounds of the model *)

\* registerUser is not offered once this many users exist
MaxUsers == 4
\* idbPut/idbGet/idbDelete calls in flight at once
MaxIdbTasks == 2
\* playSong bodies in flight at once
MaxPlays == 1
\* songs of the large library the recently-played runs start from
LibrarySongs == 52
\* upload submits in flight at once, the highest song counter an upload
\* may take an id at, and playlists in the document
MaxUploads == 2
MaxSongs == 3
MaxPlaylists == 2

\* the cap of RecentlyPlayed
RP_CAP == 50

----------------------------------------------------------------------------
(* Values *)

\* state.currentUser: null, script.js:123
NoUser == 0
\* currentSongId: null, script.js:131
NoSong == 0
Null == "null"
NullKey == <<"null", 0>>

AllKeys == {"users", "songs", "albums", "playlists", "likes", "followers",
            "recentlyPlayed", "nextIds"}

Min(S) == CHOOSE x \in S : \A y \in S : x <= y

AudioKey(songId) == <<"audio", songId>>
AlbumImageKey(albumId) == <<"image:album", albumId>>
UserImageKey(userId) == <<"image:user", userId>>

NoIds == [song |-> 0, album |-> 0, playlist |-> 0, user |-> 0]

\* script.js:93-104
defaultMeta ==
  [obj |-> TRUE, has |-> AllKeys,
   users |-> <<>>, songs |-> <<>>, albums |-> <<>>, playlists |-> <<>>,
   likes |-> <<>>, followers |-> <<>>, recentlyPlayed |-> <<>>,
   nextIds |-> [song |-> 1, album |-> 1, playlist |-> 1, user |-> 1]]

\* A parsed JSON value that is an object with no own property ("{}"), and a
\* parsed JSON value that is a number, a string or true.
EmptyObject == [defaultMeta EXCEPT !.has = {}, !.nextIds = NoIds]
Primitive == [EmptyObject EXCEPT !.obj = FALSE]

User(id, username, password, displayName, superAdmin) ==
  [id |-> id, username |-> username, password |-> password,
   displayName |-> displayName, superAdmin |-> superAdmin,
   imageAssetId |-> NullKey]

Song(songId, albumId, uploader) ==
  [id |-> songId, albumId |-> albumId, assetId |-> AudioKey(songId),
   coverAssetId |-> AlbumImageKey(albumId), artist |-> uploader]

Album(albumId, songId, uploader) ==
  [id |-> albumId, artist |-> uploader, coverAssetId |-> AlbumImageKey(albumId),
   tracks |-> <<songId>>]

----------------------------------------------------------------------------
(* localStorage metadata helpers, script.js:66-104 *)

\* JSON.stringify(meta): the document is plain data (arrays, objects,
\* strings, numbers, booleans, null), which JSON writes out as it is; absent
\* top-level keys stay absent.  A primitive is written as a primitive.
stringify(m) == [kind |-> IF m.obj THEN "json" ELSE "primitive", doc |-> m]

\* What localStorage can hold under META_KEY.
RawMissing == [kind |-> "missing", doc |-> EmptyObject]
RawUnparseable == [kind |-> "unparseable", doc |-> EmptyObject]
RawNull == [kind |-> "null", doc |-> EmptyObject]
RawPrimitive == stringify(Primitive)

\* saveMeta, script.js:89-91
saveMeta(m) == stringify(m)

\* `if (!parsed.k) parsed.k = ...`, script.js:74-79: an absent key of an
\* object is added; on a primitive the assignment has no effect.
Migrate(parsed) ==
  IF parsed.obj
    THEN [parsed EXCEPT !.has = @ \cup {"users", "songs", "playlists", "albums",
                                        "likes", "followers"}]
    ELSE parsed

\* loadMeta, script.js:68-87: the document returned and what localStorage
\* holds afterwards.  JSON.parse throws on unparseable text; `parsed.users`
\* throws when the text is the literal null.
loadMeta(raw) ==
  IF raw.kind = "missing"
    THEN [m |-> defaultMeta, stored |-> raw]
    ELSE IF raw.kind \in {"unparseable", "null"}
      THEN [m |-> defaultMeta, stored |-> saveMeta(defaultMeta)]
      ELSE [m |-> Migrate(raw.doc), stored |-> raw]

----------------------------------------------------------------------------
(* Lookups *)

\* users.find(u => u.username === username): position of the first match
FindUser(users, username) ==
  LET I == {i \in 1..Len(users) : users[i].username = username}
  IN  IF I = {} THEN NoUser ELSE Min(I)

\* users.find(u => u.username === username && u.password === password)
FindLogin(users, username, password) ==
  LET I == {i \in 1..Len(users) :
              users[i].username = username /\ users[i].password = password}
  IN  IF I = {} THEN NoUser ELSE Min(I)

\* songs.find(s => s.id === songId)
FindSong(songs, songId) ==
  LET I == {i \in 1..Len(songs) : songs[i].id = songId}
  IN  IF I = {} THEN NoSong ELSE Min(I)

\* arr.indexOf(x), 0-based, -1 when absent
IndexOf(arr, x) ==
  LET I == {i \in 1..Len(arr) : arr[i] = x}
  IN  IF I = {} THEN -1 ELSE Min(I) - 1

Includes(arr, x) == \E i \in 1..Len(arr) : arr[i] = x

\* arr.splice(idx, 1), idx 0-based
Splice1(arr, idx) ==
  [i \in 1..(Len(arr) - 1) |-> IF i <= idx THEN arr[i] ELSE arr[i + 1]]

\* obj[key] for a map held as a function: [] stands for undefined
Lookup(map, key) == IF key \in DOMAIN map THEN map[key] ELSE <<>>
HasEntry(map, key) == key \in DOMAIN map
SetEntry(map, key, val) ==
  [k \in (DOMAIN map) \cup {key} |-> IF k = key THEN val ELSE map[k]]

\* What a handler returns or signals: the return value's msg, the toast or
\* alert text, or the exception that escaped it.
Signal(op, res) == [op |-> op, res |-> res, arg |-> "", key |-> NullKey]
\* the same, with the username the handler was aimed at
SignalOn(op, res, arg) == [op |-> op, res |-> res, arg |-> arg, key |-> NullKey]
\* the value a blob store call settles with, and the key it was called with
Settled(op, res, key) == [op |-> op, res |-> res, arg |-> "", key |-> key]

----------------------------------------------------------------------------
(* Stores a page can start from *)

\* The document and the blobs a completed first run leaves behind
\* (ensureSuperAdmin, then createSampleAssetsIfEmpty on an empty store).
BootstrappedDoc ==
  [defaultMeta EXCEPT
     !.users = <<User(1, "RankRates", "Rank1250", "RankRates", TRUE),
                 User(2, "alice", "alice", "Alice", FALSE)>>,
     !.songs = <<Song(1, 1, "RankRates")>>,
     !.albums = <<Album(1, 1, "RankRates")>>,
     !.nextIds = [song |-> 2, album |-> 2, playlist |-> 1, user |-> 3]]

BootstrappedBlobs ==
  [k \in {AudioKey(1), AlbumImageKey(1), UserImageKey(1)} |->
     IF k = AudioKey(1) THEN "wav" ELSE "art"]

\* doc as an older version of the program wrote it: without the top-level
\* keys in `removed`
Without(doc, removed) ==
  [obj |-> doc.obj, has |-> doc.has \ removed,
   users |-> IF "users" \in removed THEN <<>> ELSE doc.users,
   songs |-> IF "songs" \in removed THEN <<>> ELSE doc.songs,
   albums |-> IF "albums" \in removed THEN <<>> ELSE doc.albums,
   playlists |-> IF "playlists" \in removed THEN <<>> ELSE doc.playlists,
   likes |-> IF "likes" \in removed THEN <<>> ELSE doc.likes,
   followers |-> IF "followers" \in removed THEN <<>> ELSE doc.followers,
   recentlyPlayed |-> IF "recentlyPlayed" \in removed THEN <<>>
                      ELSE doc.recentlyPlayed,
   nextIds |-> IF "nextIds" \in removed THEN NoIds ELSE doc.nextIds]

\* the sets of top-level keys the older documents of the model lack
RemovedKeySets ==
  {{}, {"nextIds"}, {"recentlyPlayed"}, {"recentlyPlayed", "nextIds"},
   {"albums", "playlists", "likes", "followers"}, {"songs", "albums"},
   AllKeys}

\* localStorage holds no document, or text that is no document
BrokenStores == {RawMissing, RawUnparseable, RawNull, RawPrimitive}

ObjectStores == {stringify(Without(BootstrappedDoc, r)) : r \in RemovedKeySets}

FreshPlayer ==
  [queue |-> <<>>, index |-> 0, playing |-> FALSE, currentSongId |-> NoSong]
\* currentTime is kept as a percentage of the duration
FreshAudio ==
  [src |-> NoSong, paused |-> TRUE, ended |-> FALSE, error |-> FALSE,
   currentTime |-> 0]
NoLocals == [songId |-> 0, albumId |-> 0]
\* The upload submits that are suspended: `waiting` of them at fileToImage,
\* where they hold nothing yet, and those in `held` at fileToBlob ("blob") or
\* imageToBlob ("art") with the ids they took and the artist they read.
NoUploads == [waiting |-> 0, held |-> {}]
\* no queue panel is open
NoPanels == {}
\* both sliders at 0, state.player.seekUpdating false, no release timer set
NoSeek == [value |-> 0, fsValue |-> 0, updating |-> FALSE, timers |-> 0]
\* no profile save is suspended
NoEdits == {}

\* the state of a page whose script has not run yet
PageUnloaded ==
  /\ meta = defaultMeta
  /\ currentUser = NoUser
  /\ bootPc = "start"
  /\ bootLocals = NoLocals
  /\ idbPromise = "null"
  /\ openCount = 0
  /\ idbTasks = <<>>
  /\ player = FreshPlayer
  /\ audio = FreshAudio
  /\ plays = <<>>
  /\ uploads = NoUploads
  /\ panels = NoPanels
  /\ seek = NoSeek
  /\ edits = NoEdits
  /\ ret = Signal("none", "none")

\* the history of a store whose blobs were all put and never deleted
HistoryOf(store) == [k \in DOMAIN store |-> [op |-> "put", val |-> store[k]]]

Init ==
  /\ \/ persisted \in BrokenStores /\ blobs = <<>>
     \/ persisted \in ObjectStores /\ blobs = BootstrappedBlobs
  /\ lastWrite = HistoryOf(blobs)
  /\ PageUnloaded

----------------------------------------------------------------------------
(* IndexedDB helper, script.js:10-61 *)

\* openDB, script.js:14-28: the value of idbPromise after the call, and
\* whether the call ran indexedDB.open
openDB(p) == IF p = "null" THEN "pending" ELSE p
\* openDB caching the connection only once the open has succeeded
Opens_UntilResolved(p) == IF p \in {"null", "pending"} THEN 1 ELSE 0

Opens(p) == IF p = "null" THEN 1 ELSE 0

NoCtx == [songId |-> NoSong, hasQueue |-> FALSE, queue |-> <<>>]

\* a call of idbPut / idbGet / idbDelete suspended at `await openDB()` or
\* at the promise of its transaction
IdbTask(owner, op, key, val, ctx) ==
  [owner |-> owner, op |-> op, key |-> key, val |-> val, ctx |-> ctx]

\* the caller runs openDB() and suspends
IdbCall(task) ==
  /\ idbPromise' = openDB(idbPromise)
  /\ openCount' = openCount + Opens(idbPromise)
  /\ idbTasks' = Append(idbTasks, task)

\* r.onsuccess, script.js:24
IdbOpenSuccess ==
  /\ idbPromise = "pending"
  /\ idbPromise' = "resolved"
  /\ UNCHANGED <<metaVars, bootVars, uploads, domVars, blobs, openCount, idbTasks, lastWrite,
                 playerVars, ret>>

\* r.onerror, script.js:25
IdbOpenError ==
  /\ idbPromise = "pending"
  /\ idbPromise' = "rejected"
  /\ UNCHANGED <<metaVars, bootVars, uploads, domVars, blobs, openCount, idbTasks, lastWrite,
                 playerVars, ret>>

\* store.put(...) as store.add(...): an existing record is kept
StorePut_AddOnly(store, id, blob) ==
  [k \in (DOMAIN store) \cup {id} |-> IF k \in DOMAIN store THEN store[k] ELSE blob]

\* store.put({id, blob}), script.js:35
StorePut(store, id, blob) ==
  [k \in (DOMAIN store) \cup {id} |-> IF k = id THEN blob ELSE store[k]]
\* store.delete(id), script.js:57
StoreDelete(store, id) == [k \in (DOMAIN store) \ {id} |-> store[k]]
\* req.result ? req.result.blob : null, script.js:47
StoreGet(store, id) == IF id \in DOMAIN store THEN store[id] ELSE Null

\* Transactions on the one object store run in the order they were created,
\* which is the order of the calls: the oldest call completes first.
\* ok = FALSE is `await openDB()` throwing, tx.onerror or req.onerror.
HeadIs(owner, op) ==
  /\ idbTasks # <<>>
  /\ Head(idbTasks).owner = owner
  /\ Head(idbTasks).op = op
  /\ idbPromise \in {"resolved", "rejected"}

TxOutcomes == IF idbPromise = "resolved" THEN {TRUE, FALSE} ELSE {FALSE}

\* The head transaction commits (ok) or aborts, and the continuation of its
\* caller issues the calls in `calls` (idbPromise is set by then, so their
\* openDB() returns the cached promise).
HeadDone(ok, calls) ==
  LET t == Head(idbTasks) IN
  /\ idbTasks' = Tail(idbTasks) \o calls
  /\ blobs' = IF ~ok THEN blobs
              ELSE IF t.op = "put" THEN StorePut(blobs, t.key, t.val)
              ELSE IF t.op = "delete" THEN StoreDelete(blobs, t.key)
              ELSE blobs
  /\ lastWrite' = IF ok /\ t.op \in {"put", "delete"}
                    THEN [k \in (DOMAIN lastWrite) \cup {t.key} |->
                            IF k = t.key THEN [op |-> t.op, val |-> t.val]
                            ELSE lastWrite[k]]
                    ELSE lastWrite
  /\ UNCHANGED <<idbPromise, openCount>>

----------------------------------------------------------------------------
(* Page load: the top-level script and bootstrap(), script.js:121-134, 912-933 *)

LoadSignal(raw) ==
  IF raw.kind \in {"unparseable", "null"} THEN "meta load error" ELSE "loaded"

\* `meta: loadMeta()` in the initialiser of state, script.js:121-134
StateInit ==
  /\ bootPc = "start"
  /\ meta' = loadMeta(persisted).m
  /\ persisted' = loadMeta(persisted).stored
  /\ ret' = Signal("loadMeta", LoadSignal(persisted))
  /\ bootPc' = "state"
  /\ UNCHANGED <<currentUser, bootLocals, idbVars, playerVars, uploads, domVars>>

\* `state.meta = loadMeta()`, script.js:914
bootstrapLoad ==
  /\ bootPc = "state"
  /\ meta' = loadMeta(persisted).m
  /\ persisted' = loadMeta(persisted).stored
  /\ ret' = Signal("loadMeta", LoadSignal(persisted))
  /\ bootPc' = "loaded"
  /\ UNCHANGED <<currentUser, bootLocals, idbVars, playerVars, uploads, domVars>>

\* m.users.find / m.songs.length / m.nextIds.user++ throw a TypeError when
\* the property they dereference is undefined
Undefined(m, key) == key \notin m.has

\* ensureSuperAdmin creating the user without looking for it first
ensureSuperAdmin_NoLookup ==
  /\ bootPc = "loaded"
  /\ IF Undefined(meta, "users") \/ Undefined(meta, "nextIds")
       THEN /\ bootPc' = "failed"
            /\ ret' = Signal("bootstrap", "Bootstrap failed: TypeError")
            /\ UNCHANGED <<meta, persisted>>
       ELSE LET id == meta.nextIds.user
                su == User(id, "RankRates", "Rank1250", "RankRates", TRUE)
                m  == [meta EXCEPT !.nextIds.user = id + 1,
                                   !.users = Append(@, su)]
            IN  /\ Len(meta.users) < MaxUsers
                /\ meta' = m
                /\ persisted' = saveMeta(m)
                /\ bootPc' = "admin"
                /\ ret' = Signal("ensureSuperAdmin", "SuperAdmin created: RankRates")
  /\ UNCHANGED <<currentUser, bootLocals, idbVars, playerVars, uploads, domVars>>

\* ensureSuperAdmin, script.js:139-154, called at script.js:915; an
\* exception lands in bootstrap's catch, script.js:930-932
ensureSuperAdmin ==
  /\ bootPc = "loaded"
  /\ IF Undefined(meta, "users")
       THEN /\ bootPc' = "failed"
            /\ ret' = Signal("bootstrap", "Bootstrap failed: TypeError")
            /\ UNCHANGED <<meta, persisted>>
       ELSE IF FindUser(meta.users, "RankRates") # NoUser
         THEN /\ bootPc' = "admin"
              /\ ret' = Signal("ensureSuperAdmin", "exists")
              /\ UNCHANGED <<meta, persisted>>
         ELSE IF Undefined(meta, "nextIds")
           THEN /\ bootPc' = "failed"
                /\ ret' = Signal("bootstrap", "Bootstrap failed: TypeError")
                /\ UNCHANGED <<meta, persisted>>
           ELSE LET id == meta.nextIds.user
                    su == User(id, "RankRates", "Rank1250", "RankRates", TRUE)
                    m  == [meta EXCEPT !.nextIds.user = id + 1,
                                       !.users = Append(@, su)]
                IN  /\ meta' = m
                    /\ persisted' = saveMeta(m)
                    /\ bootPc' = "admin"
                    /\ ret' = Signal("ensureSuperAdmin", "SuperAdmin created: RankRates")
  /\ UNCHANGED <<currentUser, bootLocals, idbVars, playerVars, uploads, domVars>>

\* createSampleAssetsIfEmpty up to `await genArt('Demo')`, script.js:160-204;
\* when songs exist it returns and bootstrap runs on to render(),
\* script.js:917-929, which wires the handlers
createSampleAssetsIfEmpty ==
  /\ bootPc = "admin"
  /\ IF Undefined(meta, "songs")
       THEN /\ bootPc' = "failed"
            /\ ret' = Signal("bootstrap", "Bootstrap failed: TypeError")
            /\ UNCHANGED meta
       ELSE IF Len(meta.songs) > 0
         THEN /\ bootPc' = "done"
              /\ ret' = Signal("bootstrap", "rendered")
              /\ UNCHANGED meta
         ELSE IF FindUser(meta.users, "alice") # NoUser
           THEN /\ bootPc' = "sample_art"
                /\ ret' = Signal("createSampleAssetsIfEmpty", "genArt")
                /\ UNCHANGED meta
           ELSE IF Undefined(meta, "nextIds")
             THEN /\ bootPc' = "failed"
                  /\ ret' = Signal("bootstrap", "Bootstrap failed: TypeError")
                  /\ UNCHANGED meta
             ELSE LET id == meta.nextIds.user IN
                  /\ meta' = [meta EXCEPT
                                !.nextIds.user = id + 1,
                                !.users = Append(@, User(id, "alice", "alice",
                                                         "Alice", FALSE))]
                  /\ bootPc' = "sample_art"
                  /\ ret' = Signal("createSampleAssetsIfEmpty", "genArt")
  /\ UNCHANGED <<persisted, currentUser, bootLocals, idbVars, playerVars, uploads, domVars>>

\* genArt resolved: the ids are taken and the first idbPut is issued,
\* script.js:206-211
sampleIds ==
  /\ bootPc = "sample_art"
  /\ IF Undefined(meta, "nextIds")
       THEN /\ bootPc' = "failed"
            /\ ret' = Signal("bootstrap", "Bootstrap failed: TypeError")
            /\ UNCHANGED <<meta, bootLocals, idbVars>>
       ELSE LET songId == meta.nextIds.song
                albumId == meta.nextIds.album
            IN  /\ meta' = [meta EXCEPT !.nextIds.song = songId + 1,
                                        !.nextIds.album = albumId + 1]
                /\ bootLocals' = [songId |-> songId, albumId |-> albumId]
                /\ IdbCall(IdbTask("boot", "put", AudioKey(songId), "wav", NoCtx))
                /\ bootPc' = "sample_put1"
                /\ ret' = Signal("createSampleAssetsIfEmpty", "idbPut")
                /\ UNCHANGED <<blobs, lastWrite>>
  /\ UNCHANGED <<persisted, currentUser, playerVars, uploads, domVars>>

\* the records pushed at script.js:215-219
WithSample(m, songId, albumId) ==
  LET uploader == m.users[1].username IN
  [m EXCEPT !.albums = Append(@, Album(albumId, songId, uploader)),
            !.songs = Append(@, Song(songId, albumId, uploader))]

\* an `await idbPut(...)` of script.js:211-213 settles; after the third one
\* the album and the song are pushed and saved, script.js:215-222, and
\* bootstrap runs on to render()
samplePutDone ==
  /\ bootPc \in {"sample_put1", "sample_put2", "sample_put3"}
  /\ HeadIs("boot", "put")
  /\ \E ok \in TxOutcomes :
       IF ~ok
         THEN /\ HeadDone(FALSE, <<>>)
              /\ bootPc' = "failed"
              /\ ret' = Signal("bootstrap", "Bootstrap failed: rejected")
              /\ UNCHANGED <<meta, persisted>>
         ELSE IF bootPc = "sample_put1"
           THEN /\ HeadDone(TRUE, <<IdbTask("boot", "put",
                                     AlbumImageKey(bootLocals.albumId), "art", NoCtx)>>)
                /\ bootPc' = "sample_put2"
                /\ ret' = Signal("createSampleAssetsIfEmpty", "idbPut")
                /\ UNCHANGED <<meta, persisted>>
           ELSE IF bootPc = "sample_put2"
             THEN /\ HeadDone(TRUE, <<IdbTask("boot", "put",
                                       UserImageKey(meta.users[1].id), "art", NoCtx)>>)
                  /\ bootPc' = "sample_put3"
                  /\ ret' = Signal("createSampleAssetsIfEmpty", "idbPut")
                  /\ UNCHANGED <<meta, persisted>>
             ELSE LET m == WithSample(meta, bootLocals.songId, bootLocals.albumId)
                  IN  /\ HeadDone(TRUE, <<>>)
                      /\ meta' = m
                      /\ persisted' = saveMeta(m)
                      /\ bootPc' = "done"
                      /\ ret' = Signal("createSampleAssetsIfEmpty", "Sample song created")
  /\ UNCHANGED <<currentUser, bootLocals, playerVars, uploads, domVars>>

\* The page is closed or reloaded while no handler is running.  The stores
\* stay; a write transaction already handed to the database may still commit.
Restart ==
  /\ bootPc \in {"sample_art", "sample_put1", "sample_put2", "sample_put3",
                 "done", "failed"}
  /\ \E commit \in BOOLEAN :
       /\ commit => /\ idbTasks # <<>>
                    /\ idbPromise = "resolved"
                    /\ Head(idbTasks).op = "put"
       /\ blobs' = IF commit
                     THEN StorePut(blobs, Head(idbTasks).key, Head(idbTasks).val)
                     ELSE blobs
       /\ lastWrite' = IF commit
                         THEN [k \in (DOMAIN lastWrite) \cup {Head(idbTasks).key} |->
                                 IF k = Head(idbTasks).key
                                   THEN [op |-> "put", val |-> Head(idbTasks).val]
                                   ELSE lastWrite[k]]
                         ELSE lastWrite
  /\ meta' = defaultMeta
  /\ currentUser' = NoUser
  /\ bootPc' = "start"
  /\ bootLocals' = NoLocals
  /\ idbPromise' = "null"
  /\ openCount' = 0
  /\ idbTasks' = <<>>
  /\ player' = FreshPlayer
  /\ audio' = FreshAudio
  /\ plays' = <<>>
  /\ uploads' = NoUploads
  /\ panels' = NoPanels
  /\ seek' = NoSeek
  /\ edits' = NoEdits
  /\ ret' = Signal("none", "none")
  /\ UNCHANGED persisted

\* the handlers are wired by initPlayer() and render(), script.js:917-929
Wired == bootPc = "done"

----------------------------------------------------------------------------
(* Auth, users, follow/unfollow, script.js:228-271 *)

\* what the sign-up and sign-in forms are filled with
Usernames == {"RankRates", "alice", "bob", "Bob"}
NewUsernames == {"alice", "bob", "Bob"}
Passwords == {"alice", "pw", "PW"}
NewPasswords == {"pw", "PW"}
DisplayNames == {"", "Bobby"}

\* displayName || username, script.js:232
OrElse(displayName, username) == IF displayName = "" THEN username ELSE displayName

\* registerUser with the id taken before the username is looked up
registerUser_IdFirst(username, password, displayName) ==
  /\ Wired
  /\ ~Undefined(meta, "nextIds")
  /\ LET id == meta.nextIds.user
         bumped == [meta EXCEPT !.nextIds.user = id + 1]
     IN  IF FindUser(meta.users, username) # NoUser
           THEN /\ ret' = Signal("registerUser", "Username exists")
                /\ meta' = bumped
                /\ UNCHANGED persisted
           ELSE /\ Len(meta.users) < MaxUsers
                /\ meta' = [bumped EXCEPT
                              !.users = Append(@, User(id, username, password,
                                           OrElse(displayName, username), FALSE))]
                /\ persisted' = saveMeta(meta')
                /\ ret' = Signal("registerUser", "ok")
  /\ UNCHANGED <<currentUser, bootVars, uploads, domVars, idbVars, playerVars>>

\* registerUser without the lookup of the username
registerUser_NoLookup(username, password, displayName) ==
  /\ Wired
  /\ ~Undefined(meta, "nextIds")
  /\ Len(meta.users) < MaxUsers
  /\ LET id == meta.nextIds.user
         m == [meta EXCEPT !.nextIds.user = id + 1,
                           !.users = Append(@, User(id, username, password,
                                        OrElse(displayName, username), FALSE))]
     IN  /\ meta' = m
         /\ persisted' = saveMeta(m)
  /\ ret' = Signal("registerUser", "ok")
  /\ UNCHANGED <<currentUser, bootVars, uploads, domVars, idbVars, playerVars>>

\* registerUser, script.js:228-236
registerUser(username, password, displayName) ==
  /\ Wired
  /\ IF FindUser(meta.users, username) # NoUser
       THEN /\ ret' = Signal("registerUser", "Username exists")
            /\ UNCHANGED <<meta, persisted>>
       ELSE IF Undefined(meta, "nextIds")
         THEN /\ ret' = Signal("registerUser", "TypeError")
              /\ UNCHANGED <<meta, persisted>>
         ELSE /\ Len(meta.users) < MaxUsers
              /\ LET id == meta.nextIds.user
                     user == User(id, username, password,
                                  OrElse(displayName, username), FALSE)
                     m == [meta EXCEPT !.nextIds.user = id + 1,
                                       !.users = Append(@, user)]
                 IN  /\ meta' = m
                     /\ persisted' = saveMeta(m)
              /\ ret' = Signal("registerUser", "ok")
  /\ UNCHANGED <<currentUser, bootVars, uploads, domVars, idbVars, playerVars>>

\* loginUser comparing usernames without regard to case
Fold(name) == IF name = "Bob" THEN "bob" ELSE name
loginUser_CaseFold(username, password) ==
  /\ Wired
  /\ LET I == {i \in 1..Len(meta.users) :
                 /\ Fold(meta.users[i].username) = Fold(username)
                 /\ meta.users[i].password = password}
     IN  IF I = {}
           THEN /\ ret' = Signal("loginUser", "Invalid credentials")
                /\ UNCHANGED currentUser
           ELSE /\ currentUser' = Min(I)
                /\ ret' = Signal("loginUser", "ok")
  /\ UNCHANGED <<meta, persisted, bootVars, uploads, domVars, idbVars, playerVars>>

\* loginUser, script.js:238-246
loginUser(username, password) ==
  /\ Wired
  /\ LET user == FindLogin(meta.users, username, password) IN
     IF user = NoUser
       THEN /\ ret' = Signal("loginUser", "Invalid credentials")
            /\ UNCHANGED currentUser
       ELSE /\ currentUser' = user
            /\ ret' = Signal("loginUser", "ok")
  /\ UNCHANGED <<meta, persisted, bootVars, uploads, domVars, idbVars, playerVars>>

\* logoutUser, script.js:248-252
logoutUser ==
  /\ Wired
  /\ currentUser' = NoUser
  /\ ret' = Signal("logoutUser", "Logged out")
  /\ UNCHANGED <<meta, persisted, bootVars, uploads, domVars, idbVars, playerVars>>

\* state.currentUser.username
CurrentUsername == meta.users[currentUser].username

\* the profiles a follow or unfollow is aimed at
FollowTargets == {"alice", "RankRates"}

\* the usernames in m.followers[x]
FollowerSet(m, x) ==
  {Lookup(m.followers, x)[i] : i \in 1..Len(Lookup(m.followers, x))}

\* followUser pushing without the includes test
followUser_NoIncludes(targetUsername) ==
  /\ Wired
  /\ IF currentUser = NoUser
       THEN /\ ret' = SignalOn("followUser", "Login first", targetUsername)
            /\ UNCHANGED <<meta, persisted>>
       ELSE LET arr == Lookup(meta.followers, targetUsername)
                m == [meta EXCEPT
                        !.followers = SetEntry(@, targetUsername,
                                               Append(arr, CurrentUsername))]
            IN  /\ meta' = m
                /\ persisted' = saveMeta(m)
                /\ ret' = SignalOn("followUser", "added", targetUsername)
  /\ UNCHANGED <<currentUser, bootVars, uploads, domVars, idbVars, playerVars>>

\* followUser, script.js:254-261
followUser(targetUsername) ==
  /\ Wired
  /\ IF currentUser = NoUser
       THEN /\ ret' = SignalOn("followUser", "Login first", targetUsername)
            /\ UNCHANGED <<meta, persisted>>
       ELSE LET arr == Lookup(meta.followers, targetUsername)
                isIn == Includes(arr, CurrentUsername)
                new == IF isIn THEN arr ELSE Append(arr, CurrentUsername)
                m == [meta EXCEPT
                        !.followers = SetEntry(@, targetUsername, new)]
            IN  /\ meta' = m
                /\ persisted' = saveMeta(m)
                /\ ret' = SignalOn("followUser",
                                   IF isIn THEN "kept" ELSE "added", targetUsername)
  /\ UNCHANGED <<currentUser, bootVars, uploads, domVars, idbVars, playerVars>>

\* unfollowUser without the `idx>=0` test: splice(-1, 1) removes the last
\* element
unfollowUser_NoIndexTest(targetUsername) ==
  /\ Wired
  /\ currentUser # NoUser
  /\ LET arr == Lookup(meta.followers, targetUsername)
         idx == IndexOf(arr, CurrentUsername)
         new == IF idx >= 0 THEN Splice1(arr, idx)
                ELSE IF arr = <<>> THEN arr ELSE SubSeq(arr, 1, Len(arr) - 1)
         m == [meta EXCEPT !.followers = SetEntry(@, targetUsername, new)]
     IN  /\ meta' = m
         /\ persisted' = saveMeta(m)
         /\ ret' = SignalOn("unfollowUser",
                            IF idx >= 0 THEN "removed" ELSE "kept", targetUsername)
  /\ UNCHANGED <<currentUser, bootVars, uploads, domVars, idbVars, playerVars>>

\* unfollowUser, script.js:263-271
unfollowUser(targetUsername) ==
  /\ Wired
  /\ IF currentUser = NoUser
       THEN /\ ret' = SignalOn("unfollowUser", "Login first", targetUsername)
            /\ UNCHANGED <<meta, persisted>>
       ELSE LET arr == Lookup(meta.followers, targetUsername)
                idx == IndexOf(arr, CurrentUsername)
                new == IF idx >= 0 THEN Splice1(arr, idx) ELSE arr
                m == [meta EXCEPT
                        !.followers = SetEntry(@, targetUsername, new)]
            IN  /\ meta' = m
                /\ persisted' = saveMeta(m)
                /\ ret' = SignalOn("unfollowUser",
                                   IF idx >= 0 THEN "removed" ELSE "kept",
                                   targetUsername)
  /\ UNCHANGED <<currentUser, bootVars, uploads, domVars, idbVars, playerVars>>

----------------------------------------------------------------------------
(* The page: load, bootstrap, sign-up, sign-in, restart *)

PageLoad ==
  \/ StateInit
  \/ bootstrapLoad
  \/ ensureSuperAdmin
  \/ createSampleAssetsIfEmpty
  \/ sampleIds
  \/ samplePutDone
  \/ IdbOpenSuccess
  \/ IdbOpenError

Next ==
  \/ PageLoad
  \/ Restart
  \/ \E u \in NewUsernames, p \in NewPasswords, d \in DisplayNames :
       registerUser(u, p, d)
  \/ \E u \in Usernames, p \in Passwords : loginUser(u, p)
  \/ logoutUser

Spec == Init /\ [][Next]_vars

----------------------------------------------------------------------------
(* Properties of the page: sign-in, sign-up, load *)

NoDuplicateUsernames(users) ==
  \A i, j \in 1..Len(users) : users[i].username = users[j].username => i = j

\* C1: loginUser(username, password) succeeds exactly when a stored user has
\* that username and that password, both compared as exact strings; on
\* success the session user is such a user, on failure the result is
\* 'Invalid credentials' and the session user is kept; the document in
\* memory and in localStorage is untouched either way.
C1_LoginExactMatch ==
  [][\A u \in Usernames, p \in Passwords :
       loginUser(u, p) =>
         /\ (ret'.res = "ok") <=>
              (\E i \in 1..Len(meta.users) :
                 meta.users[i].username = u /\ meta.users[i].password = p)
         /\ ret'.res = "ok" =>
              /\ currentUser' \in 1..Len(meta.users)
              /\ meta.users[currentUser'].username = u
              /\ meta.users[currentUser'].password = p
         /\ ret'.res # "ok" =>
              /\ ret'.res = "Invalid credentials"
              /\ currentUser' = currentUser
         /\ meta' = meta
         /\ persisted' = persisted]_vars

\* "Bob" signed in although "bob" was registered before it
C1_Witness ==
  /\ ret = Signal("loginUser", "ok")
  /\ currentUser # NoUser
  /\ meta.users[currentUser].username = "Bob"
  /\ FindUser(meta.users, "bob") \in 1..(currentUser - 1)

\* C2: registerUser with a username some stored user already has returns
\* 'Username exists' and leaves the users, nextIds.user and localStorage
\* as they were.
C2_RegisterExistingRefused ==
  [][\A u \in NewUsernames, p \in NewPasswords, d \in DisplayNames :
       (registerUser(u, p, d) /\ FindUser(meta.users, u) # NoUser) =>
         /\ ret'.res = "Username exists"
         /\ meta'.users = meta.users
         /\ meta'.nextIds.user = meta.nextIds.user
         /\ persisted' = persisted]_vars

C2_Witness ==
  /\ ret = Signal("registerUser", "Username exists")
  /\ Len(meta.users) >= 3

\* C3: no two users of the document, in memory or in localStorage, have the
\* same username.
C3_UsernamesUnique ==
  /\ NoDuplicateUsernames(meta.users)
  /\ NoDuplicateUsernames(persisted.doc.users)

\* a page restarted and bootstrapped again over two registered users
C3_Witness ==
  /\ ret = Signal("bootstrap", "rendered")
  /\ Len(meta.users) = 4
  /\ persisted.doc.users = meta.users

\* C7: whenever localStorage holds no document or one that is unparseable
\* or not an object, loadMeta returns the default document, every
\* collection present and empty, and has itself written it to localStorage.
C7_LoadSelfHeals ==
  [][((StateInit \/ bootstrapLoad) /\ persisted \in BrokenStores) =>
       /\ meta' = defaultMeta
       /\ persisted' = saveMeta(defaultMeta)]_vars

\* C8: loadMeta of a stored object lacking some of the eight top-level keys
\* returns a document that has all eight, and neither bootstrap nor a
\* mutator fails on a missing collection afterwards.
C8_LoadAddsMissingKeys ==
  [][/\ ((StateInit \/ bootstrapLoad) /\ persisted.kind = "json") =>
          meta'.has = AllKeys
     /\ ret'.res \notin {"TypeError", "Bootstrap failed: TypeError"}]_vars

----------------------------------------------------------------------------
(* The follow graph: a bootstrapped store with one registered user *)

SocialDoc ==
  [BootstrappedDoc EXCEPT
     !.users = Append(@, User(3, "bob", "pw", "bob", FALSE)),
     !.nextIds.user = 4]

InitSocial ==
  /\ persisted = stringify(SocialDoc)
  /\ blobs = BootstrappedBlobs
  /\ lastWrite = HistoryOf(blobs)
  /\ PageUnloaded

NextSocial ==
  \/ StateInit
  \/ bootstrapLoad
  \/ ensureSuperAdmin
  \/ createSampleAssetsIfEmpty
  \/ Restart
  \/ \E u \in Usernames, p \in Passwords \cup {"Rank1250"} : loginUser(u, p)
  \/ logoutUser
  \/ \E x \in FollowTargets : followUser(x)
  \/ \E x \in FollowTargets : unfollowUser(x)

SpecSocial == InitSocial /\ [][NextSocial]_vars

\* C9: for a signed-in user, followUser(x) puts the user into x's follower
\* set and changes nothing else of any follower set, so a second followUser(x)
\* leaves every follower set as the first one made it; unfollowUser(x) takes
\* the user out of x's follower set, and when the user was not in it every
\* follower set stays as it was.
C9_FollowIdempotent ==
  [][\A x \in FollowTargets :
       /\ (followUser(x) /\ currentUser # NoUser) =>
            /\ FollowerSet(meta', x) = FollowerSet(meta, x) \cup {CurrentUsername}
            /\ \A y \in Usernames \ {x} : FollowerSet(meta', y) = FollowerSet(meta, y)
            /\ (ret.op = "followUser" /\ ret.arg = x /\ ret.res # "Login first") =>
                 \A y \in Usernames : FollowerSet(meta', y) = FollowerSet(meta, y)
       /\ (unfollowUser(x) /\ currentUser # NoUser) =>
            /\ CurrentUsername \notin FollowerSet(meta', x)
            /\ CurrentUsername \notin FollowerSet(meta, x) =>
                 \A y \in Usernames : FollowerSet(meta', y) = FollowerSet(meta, y)]_vars

\* an unfollow by a user who was not among alice's followers, who has some
C9_Witness ==
  /\ ret = SignalOn("unfollowUser", "kept", "alice")
  /\ FollowerSet(meta, "alice") # {}

----------------------------------------------------------------------------
(* The blob store called directly: idbPut, idbGet, idbDelete, script.js:30-61 *)

\* the keys and blobs the calls are made with; AudioKey(2) is in no store
\* the model starts from
BlobKeys == {AudioKey(1), AudioKey(2)}
BlobValues == {"wav", "wav2"}

\* idbPut(id, blob) up to `await openDB()`, script.js:30-31
idbPut(id, blob) ==
  /\ Wired
  /\ Len(idbTasks) < MaxIdbTasks
  /\ IdbCall(IdbTask("api", "put", id, blob, NoCtx))
  /\ UNCHANGED <<metaVars, bootVars, uploads, domVars, blobs, lastWrite, playerVars, ret>>

\* idbGet(id) up to `await openDB()`, script.js:41-42
idbGet(id) ==
  /\ Wired
  /\ Len(idbTasks) < MaxIdbTasks
  /\ IdbCall(IdbTask("api", "get", id, Null, NoCtx))
  /\ UNCHANGED <<metaVars, bootVars, uploads, domVars, blobs, lastWrite, playerVars, ret>>

\* idbDelete(id) up to `await openDB()`, script.js:52-53
idbDelete(id) ==
  /\ Wired
  /\ Len(idbTasks) < MaxIdbTasks
  /\ IdbCall(IdbTask("api", "delete", id, Null, NoCtx))
  /\ UNCHANGED <<metaVars, bootVars, uploads, domVars, blobs, lastWrite, playerVars, ret>>

\* the promise of idbPut settles: tx.oncomplete / tx.onerror, script.js:36-37
idbPutDone ==
  /\ HeadIs("api", "put")
  /\ \E ok \in TxOutcomes :
       /\ HeadDone(ok, <<>>)
       /\ ret' = Settled("idbPut", IF ok THEN "true" ELSE "rejected",
                         Head(idbTasks).key)
  /\ UNCHANGED <<metaVars, bootVars, uploads, domVars, playerVars>>

\* the promise of idbGet settles: req.onsuccess / req.onerror, script.js:47-48
idbGetDone ==
  /\ HeadIs("api", "get")
  /\ \E ok \in TxOutcomes :
       /\ HeadDone(ok, <<>>)
       /\ ret' = Settled("idbGet",
                         IF ok THEN StoreGet(blobs, Head(idbTasks).key)
                         ELSE "rejected",
                         Head(idbTasks).key)
  /\ UNCHANGED <<metaVars, bootVars, uploads, domVars, playerVars>>

\* the promise of idbDelete settles, script.js:58-59
idbDeleteDone ==
  /\ HeadIs("api", "delete")
  /\ \E ok \in TxOutcomes :
       /\ HeadDone(ok, <<>>)
       /\ ret' = Settled("idbDelete", IF ok THEN "true" ELSE "rejected",
                         Head(idbTasks).key)
  /\ UNCHANGED <<metaVars, bootVars, uploads, domVars, playerVars>>

\* a page that has loaded doc from localStorage and finished bootstrap
PageLoaded(doc) ==
  /\ persisted = stringify(doc)
  /\ meta = doc
  /\ currentUser = NoUser
  /\ bootPc = "done"
  /\ bootLocals = NoLocals
  /\ idbPromise = "null"
  /\ openCount = 0
  /\ idbTasks = <<>>
  /\ player = FreshPlayer
  /\ audio = FreshAudio
  /\ plays = <<>>
  /\ uploads = NoUploads
  /\ panels = NoPanels
  /\ seek = NoSeek
  /\ edits = NoEdits
  /\ ret = Signal("bootstrap", "rendered")

InitBlob ==
  /\ blobs = BootstrappedBlobs
  /\ lastWrite = HistoryOf(blobs)
  /\ PageLoaded(BootstrappedDoc)

NextBlob ==
  \/ \E id \in BlobKeys, blob \in BlobValues : idbPut(id, blob)
  \/ \E id \in BlobKeys : idbGet(id)
  \/ \E id \in BlobKeys : idbDelete(id)
  \/ idbPutDone
  \/ idbGetDone
  \/ idbDeleteDone
  \/ IdbOpenSuccess
  \/ IdbOpenError

SpecBlob == InitBlob /\ [][NextBlob]_vars

\* C4: an idbGet that the store answers resolves with the blob of the last
\* completed idbPut of its key, and with null, not an error, for a key that
\* was never put (a key deleted since its last put is not constrained).
C4_GetReturnsLastPut ==
  [][(idbGetDone /\ ret'.res # "rejected") =>
       LET id == Head(idbTasks).key IN
       /\ ret'.key = id
       /\ id \notin DOMAIN lastWrite => ret'.res = Null
       /\ (id \in DOMAIN lastWrite /\ lastWrite[id].op = "put") =>
            ret'.res = lastWrite[id].val]_vars

\* a get of the first song's audio returned the blob a later put replaced it
\* with, while the other key is still absent
C4_Witness ==
  /\ ret = Settled("idbGet", "wav2", AudioKey(1))
  /\ AudioKey(2) \notin DOMAIN lastWrite

----------------------------------------------------------------------------
(* Player engine, script.js:276-417 *)

\* a % n as JavaScript computes it: the sign of the result is the sign of a
Rem(a, n) == IF a >= 0 THEN a % n ELSE 0 - ((0 - a) % n)

\* q[i], 0-based: undefined (no song id) outside the array
At(q, i) == IF i \in 0..(Len(q) - 1) THEN q[i + 1] ELSE NoSong

\* Array.from(new Set(rp)): the first occurrence of every element, in order
Dedupe(rp) ==
  LET keep == {i \in 1..Len(rp) : \A j \in 1..(i - 1) : rp[j] # rp[i]}
      nth(k) == CHOOSE i \in keep : Cardinality({j \in keep : j < i}) = k - 1
  IN  [k \in 1..Cardinality(keep) |-> rp[nth(k)]]

\* while (rp.length>50) rp.pop(), script.js:366
PopTo(rp, cap) == IF Len(rp) > cap THEN SubSeq(rp, 1, cap) ELSE rp

\* the list of script.js:365-367 without the while loop
RecentlyPlayedAfter_NoPop(rp, songId) == Dedupe(<<songId>> \o rp)

\* script.js:365-367: unshift, pop down to the cap, drop duplicates
RecentlyPlayedAfter(rp, songId) == Dedupe(PopTo(<<songId>> \o rp, RP_CAP))

\* playSong bodies between their call and their end
InFlight ==
  Len(SelectSeq(idbTasks, LAMBDA t : t.owner = "play")) + Len(plays)

PlayCtx(songId, hasQueue, contextQueue) ==
  [songId |-> songId, hasQueue |-> hasQueue, queue |-> contextQueue]

\* playSong up to `await idbGet(song.assetId)`, script.js:347-354, as its
\* callers run it; hasQueue is false when contextQueue is null
PlaySongCall(songId, hasQueue, contextQueue) ==
  LET i == FindSong(meta.songs, songId) IN
  IF i = NoSong
    THEN /\ ret' = Signal("playSong", "Song missing")
         /\ UNCHANGED <<idbPromise, openCount, idbTasks>>
    ELSE /\ InFlight < MaxPlays
         /\ IdbCall(IdbTask("play", "get", meta.songs[i].assetId, Null,
                            PlayCtx(songId, hasQueue, contextQueue)))
         /\ UNCHANGED ret

\* playSong assigning the queue before it looks the song up
playSong_QueueFirst(songId, hasQueue, contextQueue) ==
  /\ Wired
  /\ PlaySongCall(songId, hasQueue, contextQueue)
  /\ player' = IF hasQueue THEN [player EXCEPT !.queue = contextQueue] ELSE player
  /\ UNCHANGED <<metaVars, bootVars, uploads, domVars, blobs, lastWrite, audio, plays>>

\* playSong(songId, contextQueue) called by a card, a row or a button,
\* script.js:347-354
playSong(songId, hasQueue, contextQueue) ==
  /\ Wired
  /\ PlaySongCall(songId, hasQueue, contextQueue)
  /\ UNCHANGED <<metaVars, bootVars, uploads, domVars, blobs, lastWrite, playerVars>>

\* `await idbGet(song.assetId)` settles, script.js:354-358.  Assigning
\* audio.src runs the element's load algorithm, which rejects a pending
\* play() promise of an earlier playSong (its catch toasts 'Playback error');
\* audio.play() then unpauses the element and leaves its promise pending.
playGetDone ==
  /\ HeadIs("play", "get")
  /\ \E ok \in TxOutcomes :
       LET t == Head(idbTasks)
           blob == StoreGet(blobs, t.key)
       IN  /\ HeadDone(ok, <<>>)
           /\ IF ~ok
                THEN /\ ret' = Signal("playSong", "Playback error")
                     /\ UNCHANGED <<audio, plays>>
                ELSE IF blob = Null
                  THEN /\ ret' = Signal("playSong", "Audio blob missing")
                       /\ UNCHANGED <<audio, plays>>
                  ELSE /\ audio' = [src |-> t.ctx.songId, paused |-> FALSE,
                                    ended |-> FALSE, error |-> FALSE,
                                    currentTime |-> 0]
                       /\ plays' = <<t.ctx>>
                       /\ ret' = IF plays # <<>>
                                   THEN Signal("playSong", "Playback error")
                                   ELSE Signal("playSong", "audio.play()")
  /\ UNCHANGED <<metaVars, bootVars, uploads, domVars, player>>

\* the index as indexOf gives it, without the `>= 0` test
IndexAfterPlay_Raw(queue, songId) == IndexOf(queue, songId)

\* index after script.js:362
IndexAfterPlay(queue, songId) ==
  IF IndexOf(queue, songId) >= 0 THEN IndexOf(queue, songId) ELSE 0

\* `await audio.play()` resolves, script.js:359-368
playStarted ==
  /\ plays # <<>>
  /\ LET c == Head(plays)
         queue == IF c.hasQueue THEN c.queue ELSE player.queue
         rp == IF Undefined(meta, "recentlyPlayed") THEN <<>>
               ELSE meta.recentlyPlayed
         m == [meta EXCEPT
                 !.has = @ \cup {"recentlyPlayed"},
                 !.recentlyPlayed = RecentlyPlayedAfter(rp, c.songId)]
     IN  /\ player' = [queue |-> queue,
                       index |-> IndexAfterPlay(queue, c.songId),
                       playing |-> TRUE,
                       currentSongId |-> c.songId]
         /\ meta' = m
         /\ persisted' = saveMeta(m)
  /\ plays' = Tail(plays)
  /\ ret' = Signal("playSong", "playing")
  /\ UNCHANGED <<currentUser, bootVars, uploads, domVars, idbVars, audio>>

\* `await audio.play()` rejects, script.js:369-371
\* The element stays unpaused when the source could not be played
\* (NotSupportedError) and was never unpaused when the play request was not
\* allowed (NotAllowedError).
playRejected ==
  /\ plays # <<>>
  /\ plays' = Tail(plays)
  /\ \E paused \in BOOLEAN :
       audio' = [audio EXCEPT !.paused = paused, !.error = ~paused]
  /\ ret' = Signal("playSong", "Playback error")
  /\ UNCHANGED <<metaVars, bootVars, uploads, domVars, idbVars, player>>

\* togglePlay, script.js:395-399.  a.play() unpauses the element whether or
\* not it has a source and restarts one that has ended; a.pause() rejects a
\* pending play() promise, which the catch of that playSong reports.
togglePlay ==
  /\ Wired
  /\ IF audio.paused
       THEN /\ audio' = [audio EXCEPT !.paused = FALSE, !.ended = FALSE,
                                      !.currentTime = IF audio.ended THEN 0
                                                      ELSE @]
            /\ player' = [player EXCEPT !.playing = TRUE]
            /\ UNCHANGED <<plays, ret>>
       ELSE /\ audio' = [audio EXCEPT !.paused = TRUE]
            /\ player' = [player EXCEPT !.playing = FALSE]
            /\ plays' = <<>>
            /\ ret' = IF plays # <<>>
                        THEN Signal("playSong", "Playback error")
                        ELSE ret
  /\ UNCHANGED <<metaVars, bootVars, uploads, domVars, idbVars>>

\* playPrev without `+ q.length`
playPrev_NoWrap ==
  /\ Wired
  /\ Len(player.queue) # 0
  /\ LET q == player.queue
         idx == Rem(player.index - 1, Len(q))
     IN  /\ player' = [player EXCEPT !.index = idx]
         /\ PlaySongCall(At(q, idx), TRUE, q)
  /\ UNCHANGED <<metaVars, bootVars, uploads, domVars, blobs, lastWrite, audio, plays>>

\* playNext, script.js:401-408
playNext ==
  /\ Wired
  /\ LET q == player.queue IN
     IF Len(q) = 0
       THEN UNCHANGED <<player, idbPromise, openCount, idbTasks, ret>>
       ELSE LET idx == Rem(player.index + 1, Len(q)) IN
            /\ player' = [player EXCEPT !.index = idx]
            /\ PlaySongCall(At(q, idx), TRUE, q)
  /\ UNCHANGED <<metaVars, bootVars, uploads, domVars, blobs, lastWrite, audio, plays>>

\* playPrev, script.js:410-417
playPrev ==
  /\ Wired
  /\ LET q == player.queue IN
     IF Len(q) = 0
       THEN UNCHANGED <<player, idbPromise, openCount, idbTasks, ret>>
       ELSE LET idx == Rem(player.index - 1 + Len(q), Len(q)) IN
            /\ player' = [player EXCEPT !.index = idx]
            /\ PlaySongCall(At(q, idx), TRUE, q)
  /\ UNCHANGED <<metaVars, bootVars, uploads, domVars, blobs, lastWrite, audio, plays>>

----------------------------------------------------------------------------
(* The player over a small library *)

\* a library of n uploaded songs, song_i on album_i, all by the first user
SongsUpTo(n) == [i \in 1..n |-> Song(i, i, "RankRates")]
AlbumsUpTo(n) == [i \in 1..n |-> Album(i, i, "RankRates")]
LibraryDoc(n) ==
  [BootstrappedDoc EXCEPT
     !.songs = SongsUpTo(n),
     !.albums = AlbumsUpTo(n),
     !.nextIds = [song |-> n + 1, album |-> n + 1, playlist |-> 1, user |-> 3]]
\* its blobs, but for the audio of the songs in `lost`
LibraryBlobs(n, lost) ==
  LET keys == ({AudioKey(i) : i \in (1..n) \ lost}
               \cup {AlbumImageKey(i) : i \in 1..n}) \cup {UserImageKey(1)}
  IN  [k \in keys |-> IF k[1] = "audio" THEN "wav" ELSE "art"]

\* Three songs, the audio blob of song_3 is gone from the store; song_9 has
\* no record.
PlayIds == {1, 2, 3, 9}
Queues == {<<1, 2>>, <<2, 3, 9>>}

InitPlayer ==
  /\ blobs = LibraryBlobs(3, {3})
  /\ lastWrite = HistoryOf(blobs)
  /\ PageLoaded(LibraryDoc(3))

NextPlayer ==
  \/ \E s \in PlayIds : playSong(s, FALSE, <<>>)
  \/ \E s \in PlayIds, q \in Queues : playSong(s, TRUE, q)
  \/ playGetDone
  \/ playStarted
  \/ playRejected
  \/ playNext
  \/ playPrev
  \/ togglePlay
  \/ IdbOpenSuccess
  \/ IdbOpenError

SpecPlayer == InitPlayer /\ [][NextPlayer]_vars

\* the playSong call that playNext / playPrev make for position idx of q
CallsPlay(q, idx) ==
  IF FindSong(meta.songs, At(q, idx)) = NoSong
    THEN /\ ret'.res = "Song missing"
         /\ idbTasks' = idbTasks
    ELSE idbTasks' = Append(idbTasks,
            IdbTask("play", "get",
                    meta.songs[FindSong(meta.songs, At(q, idx))].assetId, Null,
                    PlayCtx(At(q, idx), TRUE, q)))

\* C6: on a queue of length N >= 1 with index i in 0..N-1, playNext sets
\* index to (i+1) mod N and playPrev to (i-1) mod N, the queue stays, and
\* playSong is called with the song id at the new index and that queue; on
\* an empty queue neither changes anything.
C6_NextPrevWrap ==
  [][LET q == player.queue
         N == Len(player.queue)
         i == player.index
     IN  /\ (playNext /\ N >= 1 /\ i \in 0..(N - 1)) =>
               /\ player' = [player EXCEPT !.index = (i + 1) % N]
               /\ CallsPlay(q, (i + 1) % N)
         /\ (playPrev /\ N >= 1 /\ i \in 0..(N - 1)) =>
               /\ player' = [player EXCEPT !.index = (i - 1) % N]
               /\ CallsPlay(q, (i - 1) % N)
         /\ ((playNext \/ playPrev) /\ N = 0) => UNCHANGED vars]_vars

\* playPrev from the first position of a three-song queue: the cursor is on
\* the last position, whose song id has no record
C6_Witness ==
  /\ Len(player.queue) = 3
  /\ player.currentSongId = player.queue[1]
  /\ player.index = 2
  /\ ret = Signal("playSong", "Song missing")

\* C10: a playSong call whose song id has no Song record signals 'Song
\* missing', one whose audio blob is absent from the store signals 'Audio
\* blob missing', and neither the call nor the settling of its idbGet
\* changes the queue, index, currentSongId, playing, the audio element or
\* RecentlyPlayed (nor anything else of the document).
C10_FailedPlayChangesNothing ==
  [][/\ \A s \in PlayIds, h \in BOOLEAN, q \in Queues \cup {<<>>} :
          playSong(s, h, q) =>
            /\ player' = player /\ audio' = audio /\ plays' = plays
            /\ meta' = meta /\ persisted' = persisted
            /\ FindSong(meta.songs, s) = NoSong =>
                 /\ ret'.res = "Song missing"
                 /\ idbTasks' = idbTasks
     /\ (/\ playGetDone
         /\ idbPromise = "resolved"
         /\ StoreGet(blobs, Head(idbTasks).key) = Null
         /\ ret'.res # "Playback error") =>
            /\ ret'.res = "Audio blob missing"
            /\ player' = player /\ audio' = audio /\ plays' = plays
            /\ meta' = meta /\ persisted' = persisted]_vars

\* the engine is idle after a play that found no audio blob
C10_Witness ==
  /\ ret = Signal("playSong", "Audio blob missing")
  /\ player = FreshPlayer
  /\ audio = FreshAudio

\* 0-based first position of songId in q, 0 when it does not occur
FirstPosition(q, songId) ==
  IF \E k \in 1..Len(q) : q[k] = songId
    THEN (CHOOSE k \in 1..Len(q) :
            q[k] = songId /\ \A j \in 1..(k - 1) : q[j] # songId) - 1
    ELSE 0

\* C11: when a playSong(songId, Q) completes (audio.play() resolved), the
\* queue is Q, or the queue as it was when no queue was given; index is the
\* first position of songId in that queue, 0 when it does not occur;
\* currentSongId is songId and playing is true.
C11_PlaySetsQueueAndIndex ==
  [][playStarted =>
       LET c == Head(plays)
           Q == IF c.hasQueue THEN c.queue ELSE player.queue
       IN  /\ player'.queue = Q
           /\ player'.index = FirstPosition(Q, c.songId)
           /\ player'.currentSongId = c.songId
           /\ player'.playing = TRUE]_vars

\* song_1 started with a queue it does not occur in
C11_Witness ==
  /\ ret = Signal("playSong", "playing")
  /\ player = [queue |-> <<2, 3, 9>>, index |-> 0, playing |-> TRUE,
               currentSongId |-> 1]

\* the engine states of the player: no current song, playing, paused
Idle == player.currentSongId = NoSong
Playing == player.currentSongId # NoSong /\ player.playing
Paused == player.currentSongId # NoSong /\ ~player.playing

\* C12: togglePlay while Idle changes neither the player fields nor the
\* audio element; while Playing it leaves playing false, while Paused it
\* leaves playing true.
C12_ToggleIdleNoOp ==
  [][togglePlay =>
       /\ Idle => (player' = player /\ audio' = audio)
       /\ Playing => ~player'.playing
       /\ Paused => player'.playing]_vars

\* C13: when audio.play() rejects inside playSong, the failure is reported
\* ('Playback error') and the engine is Idle afterwards: playing is false
\* and there is no current song, so the new audio source never sits next to
\* the state of the song before it.
C13_RejectedPlayEndsIdle ==
  [][playRejected =>
       /\ ret'.res = "Playback error"
       /\ ~player'.playing
       /\ player'.currentSongId = NoSong]_vars

----------------------------------------------------------------------------
(* RecentlyPlayed over a library larger than the cap *)

\* song ids a, a+1, .., b
IdsFrom(a, b) == [i \in 1..(b - a + 1) |-> a + i - 1]

\* the lists left by playing song_n, .., song_1 in that order on a fresh
\* page: empty, one short of the cap, and at the cap
RecentLists == {<<>>, IdsFrom(1, RP_CAP - 1), IdsFrom(1, RP_CAP)}

\* songs played: in every list, only in the full list, in none, and one
\* that has no record
RecentIds == {1, RP_CAP, LibrarySongs - 1, LibrarySongs, LibrarySongs + 1}

NoDuplicateIds(rp) == \A i, j \in 1..Len(rp) : rp[i] = rp[j] => i = j

InitRecent ==
  /\ blobs = LibraryBlobs(LibrarySongs, {LibrarySongs - 1})
  /\ lastWrite = HistoryOf(blobs)
  /\ \E rp \in RecentLists :
       PageLoaded([LibraryDoc(LibrarySongs) EXCEPT !.recentlyPlayed = rp])

NextRecent ==
  \/ \E s \in RecentIds : playSong(s, FALSE, <<>>)
  \/ playGetDone
  \/ playStarted
  \/ playRejected
  \/ IdbOpenSuccess
  \/ IdbOpenError

SpecRecent == InitRecent /\ [][NextRecent]_vars

\* C5: whatever playSong calls ran, started or failed, recentlyPlayed has at
\* most 50 entries and no song id twice, in memory and in localStorage.
C5_RecentlyPlayedBounded ==
  /\ Len(meta.recentlyPlayed) <= RP_CAP
  /\ NoDuplicateIds(meta.recentlyPlayed)
  /\ Len(persisted.doc.recentlyPlayed) <= RP_CAP
  /\ NoDuplicateIds(persisted.doc.recentlyPlayed)

\* a song outside a full list has started playing: it leads the list, which
\* is still at the cap
C5_Witness ==
  /\ ret = Signal("playSong", "playing")
  /\ Len(meta.recentlyPlayed) = RP_CAP
  /\ meta.recentlyPlayed[1] = LibrarySongs
  /\ meta.recentlyPlayed[RP_CAP] = RP_CAP - 1

----------------------------------------------------------------------------
(* Upload and playlists, script.js:453-541 *)

\* what the upload form and the playlist prompt are filled with
Artists == {"RankRates", "alice"}
PlaylistNames == {"Faves", "Mix", "Road"}
Owners == {"bob", "alice"}
\* the isPrivate argument: a boolean, or left out
PrivateArgs == {"true", "false", "undefined"}
\* !!isPrivate, script.js:537
ToBoolean(arg) == arg = "true"

\* the playlist object of script.js:537 (createdAt, a time stamp, left out)
Playlist(id, name, owner, private) ==
  [id |-> id, name |-> name, owner |-> owner, tracks |-> <<>>,
   coverAssetId |-> NullKey, private |-> private, sharedWith |-> <<>>]

\* createPlaylist pushing without taking a new id from the counter
createPlaylist_NoBump(name, ownerUsername, isPrivate) ==
  /\ Wired
  /\ ~Undefined(meta, "nextIds")
  /\ Len(meta.playlists) < MaxPlaylists
  /\ LET id == meta.nextIds.playlist
         pl == Playlist(id, name, ownerUsername, ToBoolean(isPrivate))
         m == [meta EXCEPT !.playlists = Append(@, pl)]
     IN  /\ meta' = m
         /\ persisted' = saveMeta(m)
         /\ ret' = [op |-> "createPlaylist", res |-> "returned", arg |-> name,
                    key |-> <<"playlist", id>>]
  /\ UNCHANGED <<currentUser, bootVars, uploads, domVars, idbVars, playerVars>>

\* createPlaylist, script.js:535-541.  It returns the object it pushed; ret
\* names that object by its id.
createPlaylist(name, ownerUsername, isPrivate) ==
  /\ Wired
  /\ IF Undefined(meta, "nextIds")
       THEN /\ ret' = Signal("createPlaylist", "TypeError")
            /\ UNCHANGED <<meta, persisted>>
       ELSE /\ Len(meta.playlists) < MaxPlaylists
            /\ LET id == meta.nextIds.playlist
                   pl == Playlist(id, name, ownerUsername, ToBoolean(isPrivate))
                   m == [meta EXCEPT !.nextIds.playlist = id + 1,
                                     !.playlists = Append(@, pl)]
               IN  /\ meta' = m
                   /\ persisted' = saveMeta(m)
                   /\ ret' = [op |-> "createPlaylist", res |-> "returned",
                              arg |-> name, key |-> <<"playlist", id>>]
  /\ UNCHANGED <<currentUser, bootVars, uploads, domVars, idbVars, playerVars>>

Upload(pc, songId, albumId, artist) ==
  [pc |-> pc, songId |-> songId, albumId |-> albumId, artist |-> artist]
UploadCtx(u) == [songId |-> u.songId, albumId |-> u.albumId, artist |-> u.artist]

\* upload submits between their first await and their end
UploadsInFlight ==
  uploads.waiting + Cardinality(uploads.held)
    + Len(SelectSeq(idbTasks, LAMBDA t : t.owner = "upload"))

\* form.onsubmit up to `await fileToImage(coverFile)`, script.js:468-474
uploadSubmit(filesChosen) ==
  /\ Wired
  /\ IF ~filesChosen
       THEN /\ ret' = Signal("upload", "Select files")
            /\ UNCHANGED uploads
       ELSE /\ UploadsInFlight < MaxUploads
            /\ uploads' = [uploads EXCEPT !.waiting = @ + 1]
            /\ UNCHANGED ret
  /\ UNCHANGED <<metaVars, bootVars, idbVars, playerVars, domVars>>

\* the upload reading the counters without incrementing them
uploadImageDone_NoBump(outcome, artist) ==
  /\ uploads.waiting > 0
  /\ outcome = "ok"
  /\ ~Undefined(meta, "nextIds")
  /\ meta.nextIds.song <= MaxSongs
  /\ uploads' = [waiting |-> uploads.waiting - 1,
                 held |-> uploads.held \cup
                   {Upload("blob", meta.nextIds.song, meta.nextIds.album, artist)}]
  /\ UNCHANGED <<metaVars, bootVars, idbVars, playerVars, ret, domVars>>

\* `await fileToImage(coverFile)` settles, script.js:474-485: the image
\* failed to load (the handler ends with an unhandled rejection), is too
\* small, or the form is read and the ids are taken; the handler then waits
\* for fileToBlob
uploadImageDone(outcome, artist) ==
  /\ uploads.waiting > 0
  /\ IF outcome = "rejected"
       THEN /\ uploads' = [uploads EXCEPT !.waiting = @ - 1]
            /\ ret' = Signal("upload", "rejected")
            /\ UNCHANGED meta
       ELSE IF outcome = "small"
         THEN /\ uploads' = [uploads EXCEPT !.waiting = @ - 1]
              /\ ret' = Signal("upload", "Cover too small (min 1000x1000)")
              /\ UNCHANGED meta
         ELSE IF Undefined(meta, "nextIds")
           THEN /\ uploads' = [uploads EXCEPT !.waiting = @ - 1]
                /\ ret' = Signal("upload", "TypeError")
                /\ UNCHANGED meta
           ELSE LET songId == meta.nextIds.song
                    albumId == meta.nextIds.album
                IN  /\ songId <= MaxSongs
                    /\ meta' = [meta EXCEPT !.nextIds.song = songId + 1,
                                            !.nextIds.album = albumId + 1]
                    /\ uploads' = [waiting |-> uploads.waiting - 1,
                                   held |-> uploads.held \cup
                                     {Upload("blob", songId, albumId, artist)}]
                    /\ UNCHANGED ret
  /\ UNCHANGED <<persisted, currentUser, bootVars, idbVars, playerVars, domVars>>

\* fileToBlob resolves and idbPut(`audio:${songId}`, ..) is called,
\* script.js:488
uploadBlobDone ==
  /\ \E u \in uploads.held :
       /\ u.pc = "blob"
       /\ IdbCall(IdbTask("upload", "put", AudioKey(u.songId), "wav",
                          UploadCtx(u)))
       /\ uploads' = [uploads EXCEPT !.held = @ \ {u}]
  /\ UNCHANGED <<metaVars, bootVars, blobs, lastWrite, playerVars, ret, domVars>>

\* imageToBlob resolves and idbPut(`image:album:${albumId}`, ..) is called,
\* script.js:489
uploadArtDone ==
  /\ \E u \in uploads.held :
       /\ u.pc = "art"
       /\ IdbCall(IdbTask("upload", "put", AlbumImageKey(u.albumId), "art",
                          UploadCtx(u)))
       /\ uploads' = [uploads EXCEPT !.held = @ \ {u}]
  /\ UNCHANGED <<metaVars, bootVars, blobs, lastWrite, playerVars, ret, domVars>>

\* the records pushed at script.js:491-495
WithUpload(m, c) ==
  [m EXCEPT !.albums = Append(@, Album(c.albumId, c.songId, c.artist)),
            !.songs = Append(@, Song(c.songId, c.albumId, c.artist))]

\* an `await idbPut(...)` of the upload settles, script.js:488-499: a
\* rejection ends the handler (nothing catches it); after the audio put the
\* handler waits for imageToBlob; after the image put the album and the song
\* are pushed and saved
uploadPutDone ==
  /\ HeadIs("upload", "put")
  /\ \E ok \in TxOutcomes :
       LET t == Head(idbTasks) IN
       /\ HeadDone(ok, <<>>)
       /\ IF ~ok
            THEN /\ ret' = Signal("upload", "rejected")
                 /\ UNCHANGED <<meta, persisted, uploads>>
            ELSE IF t.key[1] = "audio"
              THEN /\ uploads' = [uploads EXCEPT !.held = @ \cup
                                    {Upload("art", t.ctx.songId, t.ctx.albumId,
                                            t.ctx.artist)}]
                   /\ UNCHANGED <<meta, persisted, ret>>
              ELSE /\ meta' = WithUpload(meta, t.ctx)
                   /\ persisted' = saveMeta(WithUpload(meta, t.ctx))
                   /\ ret' = Signal("upload", "Upload completed")
                   /\ UNCHANGED uploads
  /\ UNCHANGED <<currentUser, bootVars, playerVars, domVars>>

----------------------------------------------------------------------------
(* Ids under page loads, sign-ups, playlists and uploads *)

UploadOutcomes == {"rejected", "small", "ok"}

\* a page that is loaded for the first time, or again after a bootstrap
InitIds ==
  /\ \/ persisted = RawMissing /\ blobs = <<>>
     \/ persisted = stringify(BootstrappedDoc) /\ blobs = BootstrappedBlobs
  /\ lastWrite = HistoryOf(blobs)
  /\ PageUnloaded

NextIds ==
  \/ StateInit
  \/ bootstrapLoad
  \/ ensureSuperAdmin
  \/ createSampleAssetsIfEmpty
  \/ sampleIds
  \/ samplePutDone
  \/ IdbOpenSuccess
  \/ Restart
  \/ registerUser("bob", "pw", "")
  \/ createPlaylist("Faves", "bob", "false")
  \/ uploadSubmit(TRUE)
  \/ \E o \in {"ok", "rejected"} : uploadImageDone(o, "alice")
  \/ uploadBlobDone
  \/ uploadArtDone
  \/ uploadPutDone

SpecIds == InitIds /\ [][NextIds]_vars

\* no two records of the collection share an id
UniqueIds(records) ==
  \A i, j \in 1..Len(records) : records[i].id = records[j].id => i = j

UniqueIdsIn(doc) ==
  /\ UniqueIds(doc.users)
  /\ UniqueIds(doc.songs)
  /\ UniqueIds(doc.albums)
  /\ UniqueIds(doc.playlists)

HasCounters(doc) == doc.obj /\ "nextIds" \in doc.has

NotLower(before, after) ==
  /\ after.song >= before.song
  /\ after.album >= before.album
  /\ after.playlist >= before.playlist
  /\ after.user >= before.user

\* the step replaces state.meta by what the page load reads from
\* localStorage (or unloads the page)
LoadsDocument == bootPc' \in {"start", "state", "loaded"}

----------------------------------------------------------------------------
(* Playlists *)

InitPlaylist ==
  /\ blobs = BootstrappedBlobs
  /\ lastWrite = HistoryOf(blobs)
  /\ PageLoaded(BootstrappedDoc)

NextPlaylist ==
  \E n \in PlaylistNames, o \in Owners, p \in PrivateArgs :
    createPlaylist(n, o, p)

SpecPlaylist == InitPlaylist /\ [][NextPlaylist]_vars

PlaylistIds(playlists) == {playlists[i].id : i \in 1..Len(playlists)}

\* C15: createPlaylist(name, owner, private) returns a playlist whose id no
\* playlist had before, with the given name, owner and private flag and no
\* tracks; the collection afterwards is the collection before with exactly
\* that playlist appended, and localStorage holds it when the call returns.
C15_CreatePlaylistAppends ==
  [][\A n \in PlaylistNames, o \in Owners, p \in PrivateArgs :
       createPlaylist(n, o, p) =>
         /\ ret'.res = "returned"
         /\ Len(meta'.playlists) = Len(meta.playlists) + 1
         /\ SubSeq(meta'.playlists, 1, Len(meta.playlists)) = meta.playlists
         /\ LET pl == meta'.playlists[Len(meta'.playlists)] IN
              /\ ret'.key = <<"playlist", pl.id>>
              /\ pl.id \notin PlaylistIds(meta.playlists)
              /\ pl.name = n
              /\ pl.owner = o
              /\ pl.private = (p = "true")
              /\ pl.tracks = <<>>
         /\ persisted'.kind = "json"
         /\ persisted'.doc.playlists = meta'.playlists]_vars

\* a second playlist, created for bob, after one of alice
C15_Witness ==
  /\ ret = [op |-> "createPlaylist", res |-> "returned", arg |-> "Faves",
            key |-> <<"playlist", 2>>]
  /\ Len(meta.playlists) = 2
  /\ meta.playlists[1].owner = "alice"
  /\ meta.playlists[2].owner = "bob"
  /\ meta.playlists[2].name = "Faves"
  /\ persisted.doc.playlists = meta.playlists

----------------------------------------------------------------------------
(* Likes and followers, script.js:254-271, 332-344 *)

\* the like handler testing the session only after it made the entry
likeBtnClick_LateGuard ==
  /\ Wired
  /\ LET sid == player.currentSongId
         m == [meta EXCEPT !.likes = SetEntry(@, sid, Lookup(@, sid))]
     IN  /\ sid # NoSong
         /\ currentUser = NoUser
         /\ meta' = m
         /\ persisted' = saveMeta(m)
         /\ ret' = Signal("like", "Login to like")
  /\ UNCHANGED <<currentUser, bootVars, uploads, domVars, idbVars, playerVars>>

\* the click handler of #likeBtn, script.js:332-344; it signals the refusal
\* or shows the heart it set
likeBtnClick ==
  /\ Wired
  /\ LET sid == player.currentSongId IN
     IF sid = NoSong \/ currentUser = NoUser
       THEN /\ ret' = Signal("like", "Login to like")
            /\ UNCHANGED <<meta, persisted>>
       ELSE LET arr == Lookup(meta.likes, sid)
                u == CurrentUsername
                isIn == Includes(arr, u)
                new == IF isIn THEN Splice1(arr, IndexOf(arr, u))
                       ELSE Append(arr, u)
                m == [meta EXCEPT !.likes = SetEntry(@, sid, new)]
            IN  /\ meta' = m
                /\ persisted' = saveMeta(m)
                /\ ret' = Signal("like", IF isIn THEN "unliked" ELSE "liked")
  /\ UNCHANGED <<currentUser, bootVars, uploads, domVars, idbVars, playerVars>>

\* three users and two songs with their audio
LikesDoc ==
  [SocialDoc EXCEPT
     !.songs = SongsUpTo(2),
     !.albums = AlbumsUpTo(2),
     !.nextIds = [song |-> 3, album |-> 3, playlist |-> 1, user |-> 4]]

InitLikes ==
  /\ blobs = LibraryBlobs(2, {})
  /\ lastWrite = HistoryOf(blobs)
  /\ PageLoaded(LikesDoc)

NextLikes ==
  \/ loginUser("alice", "alice")
  \/ loginUser("bob", "pw")
  \/ logoutUser
  \/ followUser("alice")
  \/ unfollowUser("alice")
  \/ likeBtnClick
  \/ \E s \in {1, 2} : playSong(s, FALSE, <<>>)
  \/ playGetDone
  \/ playStarted
  \/ IdbOpenSuccess

SpecLikes == InitLikes /\ [][NextLikes]_vars

\* C16: with no user signed in, followUser, unfollowUser and the like
\* button leave followers, likes and localStorage as they were and signal
\* the refusal.
C16_SignedOutRefused ==
  [][(/\ currentUser = NoUser
      /\ \/ likeBtnClick
         \/ \E x \in FollowTargets : followUser(x) \/ unfollowUser(x)) =>
        /\ meta'.followers = meta.followers
        /\ meta'.likes = meta.likes
        /\ persisted' = persisted
        /\ ret'.res \in {"Login first", "Login to like"}]_vars

\* the like button was refused with a song playing and nobody signed in,
\* on a page that holds likes and followers
C16_Witness ==
  /\ ret = Signal("like", "Login to like")
  /\ currentUser = NoUser
  /\ player.currentSongId # NoSong
  /\ Lookup(meta.likes, player.currentSongId) # <<>>
  /\ Lookup(meta.followers, "alice") # <<>>

\* the entries of a likes or followers map hold no username twice
SetLike(map) ==
  \A k \in DOMAIN map :
    \A i, j \in 1..Len(map[k]) : map[k][i] = map[k][j] => i = j

\* C17: after any sequence of follows, unfollows and like toggles by
\* signed-in users, no entry of likes or of followers holds a username
\* twice.
C17_LikesFollowersAreSets ==
  /\ SetLike(meta.likes)
  /\ SetLike(meta.followers)
  /\ SetLike(persisted.doc.likes)
  /\ SetLike(persisted.doc.followers)

\* a follow repeated by a follower, with two followers and two likes held
C17_Witness ==
  /\ ret = SignalOn("followUser", "kept", "alice")
  /\ Len(Lookup(meta.followers, "alice")) = 2
  /\ \E sid \in {1, 2} : Len(Lookup(meta.likes, sid)) = 2

----------------------------------------------------------------------------
(* The one connection of the blob store *)

\* C18: however many idbPut / idbGet / idbDelete calls are made before the
\* first open has completed, the page runs indexedDB.open exactly once, and
\* every call waits on and uses the connection of that one open.
C18_OpenedOnce ==
  /\ openCount <= 1
  /\ (openCount = 0) <=> (idbPromise = "null")
  /\ idbTasks # <<>> => openCount = 1

\* two calls are waiting on the open that the first of them started
C18_Witness ==
  /\ idbPromise = "pending"
  /\ openCount = 1
  /\ Len(idbTasks) >= 2
  /\ idbTasks[1].op = "put"
  /\ idbTasks[2].op = "get"

----------------------------------------------------------------------------
(* Two plays in flight *)

\* the arguments of a playSong call: a song with its audio, and a queue or
\* none
PlayArgs ==
  {PlayCtx(s, TRUE, q) : s \in {1, 2}, q \in Queues}
    \cup {PlayCtx(s, FALSE, <<>>) : s \in {1, 2}}

\* playSong(A, QA) and then playSong(B, QB) were called on a fresh page, and
\* neither idbGet has settled
InitRace ==
  /\ blobs = LibraryBlobs(3, {3})
  /\ lastWrite = HistoryOf(blobs)
  /\ persisted = stringify(LibraryDoc(3))
  /\ meta = LibraryDoc(3)
  /\ currentUser = NoUser
  /\ bootPc = "done"
  /\ bootLocals = NoLocals
  /\ idbPromise = "pending"
  /\ openCount = 1
  /\ \E A \in PlayArgs, B \in PlayArgs :
       idbTasks = <<IdbTask("play", "get", AudioKey(A.songId), Null, A),
                    IdbTask("play", "get", AudioKey(B.songId), Null, B)>>
  /\ player = FreshPlayer
  /\ audio = FreshAudio
  /\ plays = <<>>
  /\ uploads = NoUploads
  /\ panels = NoPanels
  /\ seek = NoSeek
  /\ edits = NoEdits
  /\ ret = Signal("bootstrap", "rendered")

NextRace ==
  \/ IdbOpenSuccess
  \/ IdbOpenError
  \/ playGetDone
  \/ playStarted
  \/ playRejected
  \/ togglePlay

SpecRace == InitRace /\ [][NextRace]_vars

\* C19: a play is not cancelled by a later one.  A playSong whose asset has
\* resolved stays in flight when the asset of a later call resolves, and
\* each play that completes leaves the engine with its own song, so the
\* play that completes last decides the final state.
C19_NoCancellation ==
  [][/\ (playGetDone /\ plays # <<>>) =>
          \E i \in 1..Len(plays') : plays'[i] = Head(plays)
     /\ playStarted =>
          /\ player'.currentSongId = Head(plays).songId
          /\ audio'.src = Head(plays).songId]_vars

----------------------------------------------------------------------------
(* The order of RecentlyPlayed *)

\* C20: after a playSong(s) that started, recentlyPlayed is s followed by
\* the previous list without s, cut to its first 50 entries: an entry other
\* than s is dropped only when the list without the duplicate is longer than
\* 50; localStorage holds the same list.
C20_RecentlyPlayedUpdate ==
  [][playStarted =>
       LET s == Head(plays).songId
           rest == SelectSeq(meta.recentlyPlayed, LAMBDA x : x # s)
           expected == PopTo(<<s>> \o rest, RP_CAP)
       IN  /\ meta'.recentlyPlayed = expected
           /\ persisted'.doc.recentlyPlayed = expected]_vars

----------------------------------------------------------------------------
(* Loop playback: the `ended` event, script.js:297-299 *)

\* The audio element played its source to the end: it is then ended and
\* paused, and the `ended` listener runs playNext (script.js:297-299,
\* 401-408).  An element without a source, one that is paused, one whose
\* source failed and one whose play() promise is still pending does not
\* reach the end.
onEnded ==
  /\ Wired
  /\ audio.src # NoSong /\ ~audio.paused /\ ~audio.ended /\ ~audio.error
  /\ plays = <<>>
  /\ audio' = [audio EXCEPT !.paused = TRUE, !.ended = TRUE,
                            !.currentTime = 100]
  /\ LET q == player.queue IN
     IF Len(q) = 0
       THEN UNCHANGED <<player, idbPromise, openCount, idbTasks, ret>>
       ELSE LET idx == Rem(player.index + 1, Len(q)) IN
            /\ player' = [player EXCEPT !.index = idx]
            /\ PlaySongCall(At(q, idx), TRUE, q)
  /\ UNCHANGED <<metaVars, bootVars, uploads, domVars, blobs, lastWrite, plays>>

\* the library of the loop and the queues played over it: every array of
\* song ids of the library up to MaxQueueLen long
LoopSongs == 2
MaxQueueLen == 3
LoopQueues == UNION {[1..n -> 1..LoopSongs] : n \in 1..MaxQueueLen}

\* a page whose library has an audio blob for every song
InitLoop ==
  /\ blobs = LibraryBlobs(LoopSongs, {})
  /\ lastWrite = HistoryOf(blobs)
  /\ PageLoaded(LibraryDoc(LoopSongs))

\* play(q[0], q) on the fresh player
playFirst ==
  /\ player = FreshPlayer /\ audio = FreshAudio /\ InFlight = 0
  /\ \E q \in LoopQueues : playSong(q[1], TRUE, q)

NextLoop ==
  \/ playFirst
  \/ playGetDone
  \/ playStarted
  \/ playRejected
  \/ onEnded
  \/ IdbOpenSuccess
  \/ IdbOpenError

\* The event loop runs every settled promise's continuation and the media
\* element fires `ended` at the end of every track it plays: no step of the
\* loop stays enabled forever without being taken.
SpecLoop ==
  /\ InitLoop /\ [][NextLoop]_vars
  /\ WF_vars(playFirst) /\ WF_vars(IdbOpenSuccess) /\ WF_vars(playGetDone)
  /\ WF_vars(playStarted) /\ WF_vars(onEnded)

\* the queue the loop runs over: the one given to the play in flight, else
\* the player's
LoopQueue ==
  IF plays # <<>> THEN Head(plays).queue
  ELSE IF idbTasks # <<>> /\ Head(idbTasks).owner = "play"
    THEN Head(idbTasks).ctx.queue
  ELSE player.queue

\* position p of the queue is being put on air: the cursor stands on p and
\* the element was given the song of that position
OnAir(p) ==
  /\ plays # <<>>
  /\ player.index = p
  /\ Head(plays).songId = At(Head(plays).queue, p)

\* some asset resolution or play() failed
LoopFailed ==
  ret.res \in {"Playback error", "Audio blob missing", "Song missing"}

\* C21: after play(q[0], q) on a queue whose songs all have audio blobs,
\* when no asset resolution and no play() fails and every track ends, every
\* position of q is played again and again, also when a song id occurs at
\* several positions of q.
C21_LoopPlaysEveryPosition ==
  \A q \in LoopQueues : \A p \in 0..(Len(q) - 1) :
    []~LoopFailed => [](LoopQueue = q => <>OnAir(p))

----------------------------------------------------------------------------
(* Seeking, script.js:281-295, 305-311, 320-323 *)

\* slider values and playback positions, as percentages of the duration
Positions == {0, 50, 100}
\* setTimeout callbacks of the seek handler that may be pending at once
MaxTimers == 2

\* audio.duration is a number: the element has a source it could load
HasDuration == audio.src # NoSong /\ ~audio.error

\* `input` on #seek, script.js:305-311: the slider already shows the value v
\* the user dragged it to
seekInput(v) ==
  /\ Wired
  /\ seek.timers < MaxTimers
  /\ seek' = [seek EXCEPT !.value = v, !.updating = TRUE, !.timers = @ + 1]
  /\ audio' = IF HasDuration THEN [audio EXCEPT !.currentTime = v] ELSE audio
  /\ UNCHANGED <<metaVars, bootVars, uploads, idbVars, player, plays, panels,
                 edits, ret>>

\* `input` on #fsSeek, script.js:320-323
fsSeekInput(v) ==
  /\ Wired
  /\ seek' = [seek EXCEPT !.fsValue = v]
  /\ audio' = IF HasDuration THEN [audio EXCEPT !.currentTime = v] ELSE audio
  /\ UNCHANGED <<metaVars, bootVars, uploads, idbVars, player, plays, panels,
                 edits, ret>>

\* the oldest pending setTimeout callback of script.js:310 runs, 300 ms
\* after the input that set it
seekRelease ==
  /\ seek.timers > 0
  /\ seek' = [seek EXCEPT !.updating = FALSE, !.timers = @ - 1]
  /\ UNCHANGED <<metaVars, bootVars, uploads, idbVars, playerVars, panels,
                 edits, ret>>

\* `timeupdate`, script.js:281-295: the element reports its position ct,
\* which moved forward if it is playing
timeupdate(ct) ==
  /\ Wired
  /\ HasDuration
  /\ IF audio.paused \/ plays # <<>> THEN ct = audio.currentTime
     ELSE ct >= audio.currentTime
  /\ audio' = [audio EXCEPT !.currentTime = ct]
  /\ seek' = IF player.currentSongId = NoSong \/ seek.updating THEN seek
             ELSE [seek EXCEPT !.value = ct, !.fsValue = ct]
  /\ UNCHANGED <<metaVars, bootVars, uploads, idbVars, player, plays, panels,
                 edits, ret>>

\* a page with one song in its library
InitSeek ==
  /\ blobs = LibraryBlobs(1, {})
  /\ lastWrite = HistoryOf(blobs)
  /\ PageLoaded(LibraryDoc(1))

NextSeek ==
  \/ playSong(1, FALSE, <<>>)
  \/ playGetDone
  \/ playStarted
  \/ IdbOpenSuccess
  \/ togglePlay
  \/ \E v \in Positions : seekInput(v)
  \/ \E v \in Positions : fsSeekInput(v)
  \/ seekRelease
  \/ \E ct \in Positions : timeupdate(ct)

\* a timer that was set runs when its delay has elapsed
SpecSeek == InitSeek /\ [][NextSeek]_vars /\ WF_vars(seekRelease)

\* the release delay of the latest #seek input has not elapsed: its timer,
\* the last one set, is still pending
InSeekWindow == seek.timers > 0

\* C22: from every seek input until the release delay after that input has
\* elapsed the guard seekUpdating is held and timeupdate leaves the slider
\* alone, also when several inputs fall into one delay window and for the
\* input of either seek control; the guard is released in the end.
C22_SeekGuardHeld ==
  /\ [](InSeekWindow => seek.updating)
  /\ [][\A ct \in Positions : (timeupdate(ct) /\ InSeekWindow) =>
          seek'.value = seek.value]_vars
  /\ [][\A v \in Positions : (seekInput(v) \/ fsSeekInput(v)) =>
          seek'.updating]_vars
  /\ (seek.updating ~> ~seek.updating)

----------------------------------------------------------------------------
(* Queue panel, script.js:422-439, and the whole engine *)

\* queue panels that may be open at once
MaxPanels == 1

\* click on #queueBtn, script.js:326-329, 422-439: the panel keeps the array
\* that is the queue at that moment and builds one row per position
openQueuePanel ==
  /\ Wired
  /\ Cardinality(panels) < MaxPanels
  /\ panels' = panels \cup {player.queue}
  /\ UNCHANGED <<metaVars, bootVars, uploads, idbVars, playerVars, seek, edits,
                 ret>>

\* click on #closeQueue, script.js:437
closeQueuePanel ==
  /\ \E q \in panels : panels' = panels \ {q}
  /\ UNCHANGED <<metaVars, bootVars, uploads, idbVars, playerVars, seek, edits,
                 ret>>

\* click on row i of a panel built over q, script.js:434
panelSelect(q, i) ==
  /\ q \in panels
  /\ i \in 0..(Len(q) - 1)
  /\ player' = [player EXCEPT !.index = i]
  /\ PlaySongCall(At(q, i), TRUE, q)
  /\ panels' = panels \ {q}
  /\ UNCHANGED <<metaVars, bootVars, uploads, blobs, lastWrite, audio, plays,
                 seek, edits>>

\* the engine under every control of the player bar and the queue panel,
\* over the library of InitPlayer (song_3 without audio blob, song_9 without
\* record)
NextEngine ==
  \/ \E s \in PlayIds : playSong(s, FALSE, <<>>)
  \/ \E s \in PlayIds, q \in Queues : playSong(s, TRUE, q)
  \/ playGetDone
  \/ playStarted
  \/ playRejected
  \/ playNext
  \/ playPrev
  \/ onEnded
  \/ togglePlay
  \/ openQueuePanel
  \/ closeQueuePanel
  \/ \E q \in Queues, i \in 0..2 : panelSelect(q, i)
  \/ IdbOpenSuccess

SpecEngine == InitPlayer /\ [][NextEngine]_vars

\* C23: whenever the queue is not empty and no playSong is in flight, index
\* is a position of the queue; after play, next, prev, ended and queue-panel
\* selections, also a selection in a panel opened before the queue was
\* replaced and plays that fail on a missing asset.
C23_IndexInRange ==
  (Len(player.queue) > 0 /\ InFlight = 0) =>
     player.index \in 0..(Len(player.queue) - 1)

\* C26: in every state with no playSong in flight, when currentSongId is
\* set and occurs in the queue, the song at the cursor is the current song;
\* also after next, prev, ended or a queue-panel selection whose target has
\* no Song record or no audio blob.
C26_CursorOnCurrentSong ==
  (/\ InFlight = 0
   /\ player.currentSongId # NoSong
   /\ Includes(player.queue, player.currentSongId)) =>
     At(player.queue, player.index) = player.currentSongId

\* the audio output is sounding: the element has a source that it is
\* playing, neither paused nor at its end nor failed
AudioOutput ==
  audio.src # NoSong /\ ~audio.paused /\ ~audio.ended /\ ~audio.error

\* C27: in every state with no playSong in flight, playing is true exactly
\* when the audio output is sounding, and playing implies that
\* currentSongId is set; after togglePlay in any state, after ended on an
\* empty queue or onto a missing asset, and after a failed play.
C27_PlayingMirrorsOutput ==
  InFlight = 0 =>
    /\ player.playing <=> AudioOutput
    /\ player.playing => player.currentSongId # NoSong

----------------------------------------------------------------------------
(* Profile editor, script.js:876-902, and the assets of the document *)

\* profile saves that may be suspended at once
MaxEdits == 1
\* what is typed into #edName
EditNames == {"Zed"}
\* the user whose profile is opened
EditUsers == {"alice"}

\* profile saves between their first await and their end
EditsInFlight ==
  Cardinality(edits) + Len(SelectSeq(idbTasks, LAMBDA t : t.owner = "edit"))

\* click on #edSave up to `await fileToImage(file)`, script.js:887-892, or,
\* without a file, to its end, script.js:898-900
profileSave(username, displayName, fileChosen) ==
  /\ Wired
  /\ FindUser(meta.users, username) # NoUser
  /\ LET u == FindUser(meta.users, username)
         m == [meta EXCEPT !.users[u].displayName = displayName]
     IN  /\ meta' = m
         /\ IF fileChosen
              THEN /\ EditsInFlight < MaxEdits
                   /\ edits' = edits \cup {[pc |-> "image", user |-> u]}
                   /\ UNCHANGED <<persisted, ret>>
              ELSE /\ persisted' = saveMeta(m)
                   /\ ret' = SignalOn("profile", "saved", username)
                   /\ UNCHANGED edits
  /\ UNCHANGED <<currentUser, bootVars, uploads, idbVars, playerVars, panels,
                 seek>>

\* `await fileToImage(file)` settles, script.js:892-893: the file is not an
\* image (the handler ends with an unhandled rejection), or the handler
\* waits for imageToBlob
editImageDone(ok) ==
  /\ \E e \in edits :
       /\ e.pc = "image"
       /\ IF ok
            THEN /\ edits' = (edits \ {e}) \cup {[e EXCEPT !.pc = "blob"]}
                 /\ UNCHANGED ret
            ELSE /\ edits' = edits \ {e}
                 /\ ret' = Signal("profile", "rejected")
  /\ UNCHANGED <<metaVars, bootVars, uploads, idbVars, playerVars, panels,
                 seek>>

\* the profile save setting imageAssetId when idbPut is called, not when it
\* has completed
editBlobDone_RefFirst ==
  /\ \E e \in edits :
       /\ e.pc = "blob"
       /\ IdbCall(IdbTask("edit", "put", UserImageKey(meta.users[e.user].id),
                          "art", [user |-> e.user]))
       /\ edits' = edits \ {e}
       /\ meta' = [meta EXCEPT !.users[e.user].imageAssetId =
                                  UserImageKey(meta.users[e.user].id)]
  /\ UNCHANGED <<persisted, currentUser, bootVars, uploads, blobs, lastWrite,
                 playerVars, panels, seek, ret>>

\* imageToBlob resolves and idbPut(`image:user:${user.id}`, blob) is called,
\* script.js:893-895
editBlobDone ==
  /\ \E e \in edits :
       /\ e.pc = "blob"
       /\ IdbCall(IdbTask("edit", "put", UserImageKey(meta.users[e.user].id),
                          "art", [user |-> e.user]))
       /\ edits' = edits \ {e}
  /\ UNCHANGED <<metaVars, bootVars, uploads, blobs, lastWrite, playerVars,
                 panels, seek, ret>>

\* `await idbPut(aid, blob)` settles, script.js:895-900: a rejection ends the
\* handler; otherwise imageAssetId is set and the document saved
editPutDone ==
  /\ HeadIs("edit", "put")
  /\ \E ok \in TxOutcomes :
       LET t == Head(idbTasks)
           m == [meta EXCEPT !.users[t.ctx.user].imageAssetId = t.key]
       IN  /\ HeadDone(ok, <<>>)
           /\ IF ~ok
                THEN /\ ret' = Signal("profile", "rejected")
                     /\ UNCHANGED <<meta, persisted>>
                ELSE /\ meta' = m
                     /\ persisted' = saveMeta(m)
                     /\ ret' = Signal("profile", "saved")
  /\ UNCHANGED <<currentUser, bootVars, uploads, playerVars, domVars>>

\* song ids taken before the last upload is started
MaxAssetSongs == 2

\* A browser profile that never ran the program, or one it bootstrapped
InitAssets ==
  /\ \/ persisted = RawMissing /\ blobs = <<>>
     \/ persisted = stringify(BootstrappedDoc) /\ blobs = BootstrappedBlobs
  /\ lastWrite = HistoryOf(blobs)
  /\ PageUnloaded

\* page loads, uploads and profile saves (one of each at a time), with their
\* failures
NextAssets ==
  \/ PageLoad
  \/ Restart
  \/ /\ UploadsInFlight = 0
     /\ meta.nextIds.song <= MaxAssetSongs
     /\ uploadSubmit(TRUE)
  \/ \E o \in {"ok", "rejected"} : uploadImageDone(o, "alice")
  \/ uploadBlobDone
  \/ uploadArtDone
  \/ uploadPutDone
  \/ \E u \in EditUsers, n \in EditNames, f \in BOOLEAN :
       EditsInFlight = 0 /\ profileSave(u, n, f)
  \/ \E ok \in BOOLEAN : editImageDone(ok)
  \/ editBlobDone
  \/ editPutDone

SpecAssets == InitAssets /\ [][NextAssets]_vars

\* the blob ids a document refers to, script.js:147, 215-218, 491-494, 896
RefsOf(doc) ==
  {doc.songs[i].assetId : i \in 1..Len(doc.songs)}
    \cup {doc.songs[i].coverAssetId : i \in 1..Len(doc.songs)}
    \cup {doc.albums[i].coverAssetId : i \in 1..Len(doc.albums)}
    \cup ({doc.users[i].imageAssetId : i \in 1..Len(doc.users)} \ {NullKey})

\* C24: while nothing is deleted, in every state (also between the awaits
\* of an upload, a profile save or the sample bootstrap, and after a blob
\* write failed) every assetId and coverAssetId of a song, every
\* coverAssetId of an album and every non-null imageAssetId of a user, in
\* the in-memory and in the stored document, is a key of the blob store.
C24_RefsHaveBlobs ==
  /\ RefsOf(meta) \subseteq DOMAIN blobs
  /\ RefsOf(persisted.doc) \subseteq DOMAIN blobs

\* an uploaded song and a profile image are in the stored document, and a
\* blob write has just failed
C24_Witness ==
  /\ ret.res = "rejected"
  /\ idbPromise = "resolved"
  /\ Len(persisted.doc.songs) >= 2
  /\ \E i \in 1..Len(persisted.doc.users) :
        persisted.doc.users[i].imageAssetId # NullKey

\* no handler is suspended at an await: bootstrap has ended, and no upload,
\* profile save, playSong or blob-store call is pending
Quiescent ==
  /\ bootPc \in {"done", "failed"}
  /\ uploads = NoUploads
  /\ edits = NoEdits
  /\ idbTasks = <<>>
  /\ plays = <<>>

\* C25: whenever no handler is suspended, the stored document is the
\* in-memory document: every mutation was followed by a save, also when a
\* blob write or an image decode of an upload, a profile save or the sample
\* creation fails.
C25_SavedWhenQuiescent ==
  Quiescent => persisted = stringify(meta)

----------------------------------------------------------------------------
(* Bootstrap on a store that was bootstrapped before *)

\* what a bootstrap that ran to its end leaves in localStorage: a document
\* with the user 'RankRates' and at least one song
Completed(raw) ==
  /\ raw.kind = "json" /\ raw.doc.obj
  /\ "users" \in raw.doc.has /\ FindUser(raw.doc.users, "RankRates") # NoUser
  /\ "songs" \in raw.doc.has /\ Len(raw.doc.songs) > 0

\* the positions of the users called 'RankRates'
RankRatesIn(users) == {i \in 1..Len(users) : users[i].username = "RankRates"}

\* C28: a bootstrap that ran to its end leaves a store on which the next
\* bootstrap, after a restart, only loads the document: it adds no user,
\* song or album, takes no id, writes neither the document nor a blob.
\* Once ensureSuperAdmin has run there is exactly one user 'RankRates', a
\* super-admin; the sample is created only while the song list is empty.
C28_BootstrapIdempotent ==
  /\ [](bootPc = "done" => Completed(persisted))
  /\ [][(PageLoad /\ Completed(persisted)) =>
          /\ meta' = loadMeta(persisted).m
          /\ persisted' = persisted
          /\ blobs' = blobs /\ idbTasks' = idbTasks /\ openCount' = openCount
          /\ bootPc' \in {"state", "loaded", "admin", "done"}]_vars
  /\ [](bootPc \in {"admin", "sample_art", "sample_put1", "sample_put2",
                    "sample_put3", "done"} =>
          /\ Cardinality(RankRatesIn(meta.users)) = 1
          /\ \A i \in RankRatesIn(meta.users) : meta.users[i].superAdmin)
  /\ [][(PageLoad /\ bootPc' \in {"sample_art", "sample_put1", "sample_put2",
                                  "sample_put3"}) =>
          Len(meta.songs) = 0 /\ Len(persisted.doc.songs) = 0]_vars
  /\ [][(PageLoad /\ bootPc \notin {"start", "state"}
           /\ meta'.songs # meta.songs) => Len(meta.songs) = 0]_vars

\* a page loaded again on the store of an earlier page life, in which bob
\* had signed up: bootstrap ran to its end without creating anything
C28_Witness ==
  /\ bootPc = "done"
  /\ ret = Signal("bootstrap", "rendered")
  /\ FindUser(meta.users, "bob") # NoUser
  /\ openCount = 0
  /\ persisted = stringify(meta)

============================================================================
